---- MODULE Spec2Model ----
(***************************************************************************)
(* Country vote platform (backend): Vote Intake (VotesService.createVote), *)
(* Ranking Engine (VotesService.getTopCountries), Country Directory Cache  *)
(* (CountriesService) over one shared in-memory cache manager.             *)
(*                                                                         *)
(* Every asynchronous handler is split at its awaits: one action is the    *)
(* effect of the awaited operation on the shared state (Vote Store, cache, *)
(* external directory answer) followed by the synchronous code that runs   *)
(* until the next await is issued.                                         *)
(***************************************************************************)
EXTENDS Integers, Sequences, FiniteSets, TLC

\* ---------------------------------------------------------------- bounds
NumCreateVote == 2      \* createVote requests (SpecVotes)
NumRankVote == 1        \* createVote requests (SpecRank)
NumGetTop == 2          \* getTop requests (SpecRank)
NumGetByCode == 2       \* getByCode requests (SpecDir)
NumGetAll == 2          \* getAll requests (SpecDir)
NumSearch == 2          \* search requests (SpecSearch)
NumByRegion == 1        \* byRegion requests (SpecStats)
NumTimeline == 1        \* timeline requests (SpecStats)
NumHasVoted == 1        \* hasVoted requests (SpecStats)
NumDetailedStats == 1   \* detailedStats requests (SpecDetail)
MaxTicks == 2           \* clock advances (SpecTtl)

\* ------------------------------------------------------ program constants
VOTE_NAME_MIN_LENGTH == 2
VOTE_NAME_MAX_LENGTH == 100
COUNTRY_CODE_LENGTH == 3
DEFAULT_TOP_COUNTRIES_LIMIT == 10
TOP_COUNTRIES_FETCH_MULTIPLIER == 2
MONGODB_DUPLICATE_KEY_ERROR_CODE == 11000
DEFAULT_CAPITAL == "N/A"
DEFAULT_SUBREGION == "N/A"
CACHE_KEY_TOP_COUNTRIES == [prefix |-> "top_countries", code |-> <<>>]
CACHE_KEY_ALL_COUNTRIES == [prefix |-> "all_countries", code |-> <<>>]
CACHE_KEY_COUNTRY_PREFIX == "country_"
SEARCH_QUERY_MIN_LENGTH == 2
VOTES_CACHE_TTL == 300000        \* VotesService.CACHE_TTL, milliseconds
COUNTRIES_CACHE_TTL == 3600000   \* CountriesService.CACHE_TTL, milliseconds
MS_PER_DAY == 86400000

\* ------------------------------------------------------------ input sets
\* Strings that the code inspects character by character are sequences of
\* one-character strings.
Names == { <<"J">>, <<"J", "o">>, [i \in 1..101 |-> "x"] }
Emails == { <<"a", "@", "x">>, <<"A", "@", "x">>, <<"b", "@", "x">> }
InputCodes == { <<"I", "T", "A">>, <<"a", "t", "a">> }
CreateVoteInputs ==
    [name : Names, email : Emails,
     countryCode : { <<"I", "T", "A">>, <<"1", "t", "a">> }]
RankVoteInputs ==
    [name : { <<"J", "o">> }, email : { <<"a", "@", "x">>, <<"B", "@", "x">> },
     countryCode : InputCodes]

\* ------------------------------------------------------ string primitives
UpperOf == [c \in {"a", "b", "i", "t", "x"} |->
              CASE c = "a" -> "A" [] c = "b" -> "B" [] c = "i" -> "I"
                [] c = "t" -> "T" [] c = "x" -> "X"]
LowerOf == [c \in {"A", "B", "I", "T", "X", "J", "M", "R"} |->
              CASE c = "A" -> "a" [] c = "B" -> "b" [] c = "I" -> "i"
                [] c = "T" -> "t" [] c = "X" -> "x" [] c = "J" -> "j"
                [] c = "M" -> "m" [] c = "R" -> "r"]

\* String.prototype.toLowerCase
ToLowerCase(s) ==
    [i \in DOMAIN s |-> IF s[i] \in DOMAIN LowerOf THEN LowerOf[s[i]] ELSE s[i]]

\* String.prototype.toUpperCase (zod .toUpperCase() transform)
ToUpperCase(s) ==
    [i \in DOMAIN s |-> IF s[i] \in DOMAIN UpperOf THEN UpperOf[s[i]] ELSE s[i]]

\* z.string().email(): the part of the format the inputs exercise, one "@"
\* with text on both sides
IsEmailFormat(s) ==
    \E i \in DOMAIN s : s[i] = "@" /\ 1 < i /\ i < Len(s)

\* CreateVoteSchema: the checks of name, email and countryCode
\* (countryName and flag are passed through and not part of the model)
SchemaAccepts(dto) ==
    /\ Len(dto.name) >= VOTE_NAME_MIN_LENGTH
    /\ Len(dto.name) <= VOTE_NAME_MAX_LENGTH
    /\ IsEmailFormat(dto.email)
    /\ Len(dto.countryCode) = COUNTRY_CODE_LENGTH

\* the DTO the pipe hands to the controller: countryCode upper-cased
SchemaTransform(dto) ==
    [dto EXCEPT !.countryCode = ToUpperCase(dto.countryCode)]

\* ------------------------------------------------------------- variables
VARIABLES
    votes,      \* Vote Store: the votes collection, in insertion order
    cache,      \* the global cache manager: key -> [present, val]
    cv,         \* createVote requests
    gt,         \* getTop requests
    bc,         \* getByCode requests (GET countries/:code)
    ga,         \* getAll requests (GET countries)
    rankSnap,   \* history: number of votes the cached ranking was
                \* aggregated from
    now,        \* the clock (Date.now()), in milliseconds since a UTC
                \* midnight, and the number of times it advanced
    sr,         \* search requests (GET countries/search)
    br,         \* byRegion requests (getVotesByRegion)
    tl,         \* timeline requests (getVotesTimeline)
    hv,         \* hasVoted requests
    ds          \* detailedStats requests (getDetailedStats)

\* the state the handlers of Vote Intake, Ranking Engine and directory
\* reads leave alone
statsVars == <<now, sr, br, tl, hv, ds>>

vars ==
    <<votes, cache, cv, gt, bc, ga, rankSnap, now, sr, br, tl, hv, ds>>

CVIds == 1..(IF NumCreateVote > NumRankVote THEN NumCreateVote
             ELSE NumRankVote)
VoteCVIds == 1..NumCreateVote
RankCVIds == 1..NumRankVote
GTIds == 1..NumGetTop
BCIds == 1..NumGetByCode
GAIds == 1..NumGetAll
SRIds == 1..NumSearch
BRIds == 1..NumByRegion
TLIds == 1..NumTimeline
HVIds == 1..NumHasVoted
DSIds == 1..NumDetailedStats

NoDto == [name |-> <<>>, email |-> <<>>, countryCode |-> <<>>]
NoEntry == [present |-> FALSE, val |-> <<>>, at |-> 0, ttl |-> 0]

\* ------------------------------------------------------------ Vote Store
\* voteModel.findOne({ email }): is there a document with this email
FindOneByEmail(store, email) ==
    \E i \in DOMAIN store : store[i].email = email

\* the document mongoose writes: the schema's lowercase setter on email,
\* createdAt from timestamps: true
SchemaDocument(dto, by) ==
    [name |-> dto.name, email |-> ToLowerCase(dto.email),
     countryCode |-> dto.countryCode, by |-> by,
     createdAt |-> [defined |-> TRUE, t |-> now.t]]

\* Faulty variant, for comparison: the collection has no unique index on email
UniqueIndexRejects_NoIndex(store, doc) == FALSE

\* Faulty variant, for comparison: the unique index is on countryCode
UniqueIndexRejects_OnCountry(store, doc) ==
    \E i \in DOMAIN store : store[i].countryCode = doc.countryCode

\* unique index on email: does inserting doc violate it
UniqueIndexRejects(store, doc) ==
    \E i \in DOMAIN store : store[i].email = doc.email

\* Faulty variant, for comparison: save replaces the newest document
InsertDocument_Replace(store, doc) ==
    IF Len(store) = 0 THEN <<doc>> ELSE [store EXCEPT ![Len(store)] = doc]

\* vote.save() of a new document: one insert into the collection
InsertDocument(store, doc) == Append(store, doc)

\* Faulty variant, for comparison: the duplicate key error is not translated
CreateVoteCatch_NoDupKey(err) ==
    IF err.kind = "ConflictException" THEN "conflict" ELSE "error"

\* Faulty variant, for comparison: the ConflictException of the pre-check is not rethrown as it is
CreateVoteCatch_Wrap(err) ==
    IF err.code = MONGODB_DUPLICATE_KEY_ERROR_CODE THEN "conflict"
    ELSE "error"

\* catch block of createVote: what the caller sees for a thrown error
CreateVoteCatch(err) ==
    IF err.kind = "ConflictException" THEN "conflict"
    ELSE IF err.code = MONGODB_DUPLICATE_KEY_ERROR_CODE THEN "conflict"
    ELSE "error"

ConflictException == [kind |-> "ConflictException", code |-> 0]
DuplicateKeyError ==
    [kind |-> "MongoServerError", code |-> MONGODB_DUPLICATE_KEY_ERROR_CODE]
StorageError == [kind |-> "MongoNetworkError", code |-> 0]

\* ------------------------------------------------------------ createVote
CvInit ==
    [pc |-> "idle", dto |-> NoDto, result |-> "none",
     writes |-> 0, dels |-> 0, outage |-> FALSE, late |-> FALSE,
     passed |-> FALSE]
\* history fields of a request: writes and dels count its Vote Store
\* writes and its cache invalidations, outage records a storage failure it
\* met, late that the store already held its email when it arrived, passed
\* that its findOne pre-check found nothing

\* Faulty variant, for comparison: the saved vote is returned without invalidating the ranking
AfterSave_NoInvalidate(r) == [r EXCEPT !.pc = "done", !.result = "ok"]

\* after save resolved: the ranking cache invalidation is awaited
AfterSave(r) == [r EXCEPT !.pc = "del"]

\* Faulty variant, for comparison: the ranking is invalidated before the vote is saved
AfterFindOne_InvalidateFirst(r) == [r EXCEPT !.pc = "del", !.passed = TRUE]

\* findOne found nothing: the document is built and save is awaited
AfterFindOne(r) == [r EXCEPT !.pc = "save", !.passed = TRUE]

\* POST votes: ZodValidationPipe, then VotesService.createVote up to the
\* await of findOne
CreateVoteRequest(c, input) ==
    /\ cv[c].pc = "idle"
    /\ \A d \in CVIds : d < c => cv[d].pc # "idle"
    /\ IF SchemaAccepts(input)
         THEN cv' = [cv EXCEPT ![c].pc = "findOne",
                               ![c].dto = SchemaTransform(input),
                               ![c].late = FindOneByEmail(votes,
                                              ToLowerCase(input.email))]
         ELSE cv' = [cv EXCEPT ![c].pc = "done",
                               ![c].result = "validation_error"]
    /\ UNCHANGED <<votes, cache, gt, bc, ga, rankSnap, statsVars>>

\* findOne resolves (or rejects); on null the document is built and save
\* is awaited
CreateVoteFindOne(c) ==
    /\ cv[c].pc = "findOne"
    /\ \/ cv' = [cv EXCEPT ![c].pc = "done",
                           ![c].outage = TRUE,
                           ![c].result = CreateVoteCatch(StorageError)]
       \/ IF FindOneByEmail(votes, ToLowerCase(cv[c].dto.email))
            THEN cv' = [cv EXCEPT ![c].pc = "done",
                          ![c].result = CreateVoteCatch(ConflictException)]
            ELSE cv' = [cv EXCEPT ![c] = AfterFindOne(cv[c])]
    /\ UNCHANGED <<votes, cache, gt, bc, ga, rankSnap, statsVars>>

\* vote.save() resolves or rejects; on success cache del is awaited
CreateVoteSave(c) ==
    /\ cv[c].pc = "save"
    /\ LET doc == SchemaDocument(
                    [cv[c].dto EXCEPT !.email = ToLowerCase(cv[c].dto.email)],
                    c)
       IN \/ /\ cv' = [cv EXCEPT ![c].pc = "done",
                                 ![c].outage = TRUE,
                                 ![c].result = CreateVoteCatch(StorageError)]
             /\ UNCHANGED votes
          \/ IF UniqueIndexRejects(votes, doc)
               THEN /\ cv' = [cv EXCEPT ![c].pc = "done",
                         ![c].result = CreateVoteCatch(DuplicateKeyError)]
                    /\ UNCHANGED votes
               ELSE /\ votes' = InsertDocument(votes, doc)
                    /\ cv' = [cv EXCEPT ![c] =
                                AfterSave([cv[c] EXCEPT !.writes = @ + 1])]
    /\ UNCHANGED <<cache, gt, bc, ga, rankSnap, statsVars>>

\* cacheManager.del(top_countries) resolves; the saved vote is returned
CreateVoteDel(c) ==
    /\ cv[c].pc = "del"
    /\ cache' = [cache EXCEPT ![CACHE_KEY_TOP_COUNTRIES] = NoEntry]
    /\ cv' = [cv EXCEPT ![c].pc = "done",
                        ![c].dels = @ + 1,
                        ![c].result = "ok"]
    /\ rankSnap' = 0
    /\ UNCHANGED <<votes, gt, bc, ga, statsVars>>

\* -------------------------------------------------- external directory
\* Raw records of the REST Countries API.  Optional properties carry a
\* "defined" flag; name is required by the interface but a malformed
\* payload may lack it.
Italy ==
    [cca3 |-> <<"I", "T", "A">>, ccn3 |-> <<"3", "8", "0">>,
     name |-> [defined |-> TRUE, common |-> <<"I", "t", "a", "l", "y">>],
     capital |-> [defined |-> TRUE, val |-> <<"Rome">>],
     region |-> "Europe",
     subregion |-> [defined |-> TRUE, val |-> "Southern Europe"]]
Antarctica ==
    [cca3 |-> <<"A", "T", "A">>, ccn3 |-> <<"0", "1", "0">>,
     name |-> [defined |-> TRUE,
               common |-> <<"A", "n", "t", "a", "r", "c", "t", "i", "c", "a">>],
     capital |-> [defined |-> FALSE, val |-> <<>>],
     region |-> "Antarctic",
     subregion |-> [defined |-> FALSE, val |-> ""]]
\* a record whose capital list is empty
Macau ==
    [cca3 |-> <<"M", "A", "C">>, ccn3 |-> <<"4", "4", "6">>,
     name |-> [defined |-> TRUE, common |-> <<"M", "a", "c", "a", "u">>],
     capital |-> [defined |-> TRUE, val |-> <<>>],
     region |-> "Asia",
     subregion |-> [defined |-> TRUE, val |-> "Eastern Asia"]]
ExternalDirectory == { Italy, Antarctica, Macau }

\* a record of a malformed payload: no name object
Malformed(country) ==
    [country EXCEPT !.name = [defined |-> FALSE, common |-> <<>>]]

DirCodes == { r.cca3 : r \in ExternalDirectory }

\* the codes requested from the directory: the listed ones and an unknown one
LookupCodes == DirCodes \cup { <<"Z", "Z", "Z">> }

\* the full listing in the order the API returns it
FullListing == << Italy, Antarctica, Macau >>

\* what httpService.get(`/all?fields=...`) can deliver: a rejection, the
\* listing, a listing with a malformed record
AllResponses ==
    { [ok |-> FALSE, data |-> <<>>],
      [ok |-> TRUE, data |-> FullListing],
      [ok |-> TRUE, data |-> << Italy, Malformed(Antarctica), Macau >>] }

\* the records the alpha endpoint finds for a code: it matches the code
\* against the three-letter and the numeric code of a country
AlphaMatches(code) ==
    { x \in ExternalDirectory : x.cca3 = code \/ x.ccn3 = code }

\* what httpService.get(`/alpha/${code}`) can deliver: a rejection (network
\* error, timeout, non-2xx), an empty array, the record, a malformed record
AlphaResponses(code) ==
    { [ok |-> FALSE, data |-> <<>>], [ok |-> TRUE, data |-> <<>>] }
    \cup { [ok |-> TRUE, data |-> <<r>>] : r \in AlphaMatches(code) }
    \cup { [ok |-> TRUE, data |-> <<Malformed(r)>>] :
             r \in AlphaMatches(code) }

\* mapCountryToDetails throws a TypeError when it reads country.name.common
\* of a record without name
MapThrows(country) == ~country.name.defined

\* Faulty variant, for comparison: String(country.capital?.[0]) and
\* String(country.subregion) without the defaults
MapCountryToDetails_NoDefaults(country) ==
    [code |-> country.cca3,
     name |-> country.name.common,
     capital |-> IF country.capital.defined /\ Len(country.capital.val) > 0
                   THEN country.capital.val[1] ELSE "undefined",
     region |-> country.region,
     subregion |-> IF country.subregion.defined
                     THEN country.subregion.val ELSE "undefined"]

\* mapCountryToDetails (officialName and flag are passed through and not
\* part of the model)
MapCountryToDetails(country) ==
    [code |-> country.cca3,
     name |-> country.name.common,
     capital |-> IF country.capital.defined /\ Len(country.capital.val) > 0
                   THEN country.capital.val[1] ELSE DEFAULT_CAPITAL,
     region |-> country.region,
     subregion |-> IF country.subregion.defined
                     THEN country.subregion.val ELSE DEFAULT_SUBREGION]

\* ----------------------------------------------------------------- cache
CountryKey(code) == [prefix |-> CACHE_KEY_COUNTRY_PREFIX, code |-> code]

CacheKeys ==
    { CACHE_KEY_TOP_COUNTRIES, CACHE_KEY_ALL_COUNTRIES }
    \cup { CountryKey(code) : code \in LookupCodes }
    \cup { CountryKey(r.ccn3) : r \in ExternalDirectory }

\* Faulty variant, for comparison: the cache write is lost
CacheSet_Dropped(c, key, value, ttl) == c

\* cacheManager.get without expiry
CacheHit_NoTtl(key) == cache[key].present

\* cacheManager.get: the value, or undefined when the key is absent or its
\* entry is older than its ttl
CacheHit(key) ==
    cache[key].present /\ now.t - cache[key].at <= cache[key].ttl

\* history: the age of the entry of a key at a read (-1 without entry)
AgeAtRead(key) == IF cache[key].present THEN now.t - cache[key].at ELSE -1

\* cacheManager.set(key, value, ttl)
CacheSet(c, key, value, ttl) ==
    [c EXCEPT ![key] = [present |-> TRUE, val |-> value, at |-> now.t,
                        ttl |-> ttl]]

\* ------------------------------------------------------------- JS helpers
Min(a, b) == IF a < b THEN a ELSE b
Max(a, b) == IF a > b THEN a ELSE b

\* Array.prototype.slice(0, end)
SliceFromZero(list, end) ==
    LET len == Len(list)
        final == IF end < 0 THEN Max(len + end, 0) ELSE Min(end, len)
    IN SubSeq(list, 1, final)

DigitValue ==
    [d \in {"0", "1", "2", "3", "4", "5", "6", "7", "8", "9"} |->
       CASE d = "0" -> 0 [] d = "1" -> 1 [] d = "2" -> 2 [] d = "3" -> 3
         [] d = "4" -> 4 [] d = "5" -> 5 [] d = "6" -> 6 [] d = "7" -> 7
         [] d = "8" -> 8 [] d = "9" -> 9]

RECURSIVE ParseDigits(_, _, _)
ParseDigits(s, i, acc) ==
    IF i > Len(s) \/ s[i] \notin DOMAIN DigitValue THEN acc
    ELSE ParseDigits(s, i + 1, acc * 10 + DigitValue[s[i]])

\* parseInt(s, 10) for a string that starts with an optional sign and at
\* least one digit
ParseInt(s) ==
    IF s[1] = "-" THEN 0 - ParseDigits(s, 2, 0)
    ELSE IF s[1] = "+" THEN ParseDigits(s, 2, 0)
    ELSE ParseDigits(s, 1, 0)

\* the values of the limit query parameter (the empty string is the
\* absent parameter; both are falsy)
QueryLimits == { <<>>, <<"-", "1">>, <<"0">>, <<"1">>, <<"2">> }

\* VotesController.getTopCountries: limit ? parseInt(limit, 10) : 10
ControllerLimit(q) ==
    IF Len(q) = 0 THEN DEFAULT_TOP_COUNTRIES_LIMIT ELSE ParseInt(q)

\* ----------------------------------------------------------- aggregation
GroupIds(store) == { store[i].countryCode : i \in DOMAIN store }

CountOf(store, code) ==
    Cardinality({ i \in DOMAIN store : store[i].countryCode = code })

\* Faulty variant, for comparison: the $sort stage is missing
GroupSortResults_Unsorted(store) ==
    LET ids == GroupIds(store)
        n == Cardinality(ids)
    IN { [i \in 1..n |-> [id |-> f[i], voteCount |-> CountOf(store, f[i])]] :
           f \in { g \in [1..n -> ids] :
                     \A i, j \in 1..n : i # j => g[i] # g[j] } }

\* Faulty variant, for comparison: every group counts one vote too many
GroupSortResults_Overcount(store) ==
    LET ids == GroupIds(store)
        n == Cardinality(ids)
    IN { [i \in 1..n |->
            [id |-> f[i], voteCount |-> CountOf(store, f[i]) + 1]] :
           f \in { g \in [1..n -> ids] :
                     /\ \A i, j \in 1..n : i # j => g[i] # g[j]
                     /\ \A i \in 1..n : \A j \in 1..n :
                          i < j => CountOf(store, g[i]) >= CountOf(store, g[j]) } }

\* $group by countryCode with $sum: 1, then $sort voteCount: -1.  The order
\* among equal counts is not determined: every non-increasing order.
GroupSortResults(store) ==
    LET ids == GroupIds(store)
        n == Cardinality(ids)
    IN { [i \in 1..n |-> [id |-> f[i], voteCount |-> CountOf(store, f[i])]] :
           f \in { g \in [1..n -> ids] :
                     /\ \A i, j \in 1..n : i # j => g[i] # g[j]
                     /\ \A i \in 1..n : \A j \in 1..n :
                          i < j => CountOf(store, g[i]) >= CountOf(store, g[j]) } }

\* $limit: n rejects a value that is not positive
LimitStageRejects(n) == n <= 0

\* $limit: n
LimitStage(list, n) == SubSeq(list, 1, Min(n, Len(list)))

\* ------------------------------------------------------ getCountryByCode
NoDetails ==
    [code |-> <<>>, name |-> <<>>, capital |-> "", region |-> "",
     subregion |-> ""]
Null == [status |-> "null", details |-> NoDetails]
Thrown == [status |-> "throw", details |-> NoDetails]

\* Faulty variant, for comparison: a rejected HTTP call is not caught
LookupOutcome_Propagate(resp) ==
    IF ~resp.ok THEN Thrown
    ELSE IF Len(resp.data) = 0 THEN Null
    ELSE IF MapThrows(resp.data[1]) THEN Null
    ELSE [status |-> "found", details |-> MapCountryToDetails(resp.data[1])]

\* getCountryByCode after the HTTP call settles: null for a rejection
\* (catch), for zero matches, and for a record the mapping throws on
\* (catch); otherwise the mapped details.  No path lets an error escape.
LookupOutcome(resp) ==
    IF ~resp.ok THEN Null
    ELSE IF Len(resp.data) = 0 THEN Null
    ELSE IF MapThrows(resp.data[1]) THEN Null
    ELSE [status |-> "found", details |-> MapCountryToDetails(resp.data[1])]

BcInit ==
    [pc |-> "idle", code |-> <<>>, pending |-> NoDetails, ret |-> Null,
     threw |-> FALSE, fetched |-> FALSE, answer |-> "none", sets |-> 0]
\* history fields of a request: fetched that it made the external call,
\* answer what the directory delivered, sets its cache writes

\* GET countries/:code: getCountryByCode awaits the cache read
GetByCodeRequest(b, code) ==
    /\ bc[b].pc = "idle"
    /\ \A d \in BCIds : d < b => bc[d].pc # "idle"
    /\ bc' = [bc EXCEPT ![b].pc = "cacheGet", ![b].code = code]
    /\ UNCHANGED <<votes, cache, cv, gt, ga, rankSnap, statsVars>>

\* the cache read resolves: hit returns the entry, miss awaits the HTTP call
GetByCodeCacheGet(b) ==
    /\ bc[b].pc = "cacheGet"
    /\ LET key == CountryKey(bc[b].code)
       IN IF CacheHit(key)
            THEN bc' = [bc EXCEPT ![b].pc = "done",
                          ![b].ret = [status |-> "found",
                                      details |-> cache[key].val]]
            ELSE bc' = [bc EXCEPT ![b].pc = "http"]
    /\ UNCHANGED <<votes, cache, cv, gt, ga, rankSnap, statsVars>>

\* what a delivery of the single-country endpoint is
AnswerKind(resp) ==
    IF ~resp.ok THEN "rejected"
    ELSE IF Len(resp.data) = 0 THEN "empty"
    ELSE IF ~resp.data[1].name.defined THEN "malformed"
    ELSE "record"

\* the HTTP call settles: null is returned, or the cache write is awaited
GetByCodeHttp(b) ==
    /\ bc[b].pc = "http"
    /\ \E resp \in AlphaResponses(bc[b].code) :
         LET out == LookupOutcome(resp)
         IN bc' = [bc EXCEPT
                ![b].fetched = TRUE,
                ![b].answer = AnswerKind(resp),
                ![b].ret = IF out.status = "found" THEN bc[b].ret
                           ELSE [status |-> out.status,
                                 details |-> NoDetails],
                ![b].pc = IF out.status = "found" THEN "cacheSet" ELSE "done",
                ![b].pending = out.details,
                ![b].threw = (out.status = "throw")]
    /\ UNCHANGED <<votes, cache, cv, gt, ga, rankSnap, statsVars>>

\* the cache write resolves: the details are returned
GetByCodeCacheSet(b) ==
    /\ bc[b].pc = "cacheSet"
    /\ cache' = CacheSet(cache, CountryKey(bc[b].code), bc[b].pending,
                       COUNTRIES_CACHE_TTL)
    /\ bc' = [bc EXCEPT ![b].pc = "done",
                        ![b].sets = @ + 1,
                        ![b].pending = NoDetails,
                        ![b].ret = [status |-> "found",
                                    details |-> bc[b].pending]]
    /\ UNCHANGED <<votes, cv, gt, ga, rankSnap, statsVars>>

\* ------------------------------------------------------- getAllCountries
\* response.data.map(mapCountryToDetails)
RECURSIVE MapAll(_)
MapAll(data) ==
    IF Len(data) = 0 THEN <<>>
    ELSE <<MapCountryToDetails(data[1])>> \o MapAll(Tail(data))

\* Faulty variant, for comparison: records the mapping throws on are left out of the listing
GetAllOutcome_SkipBad(resp) ==
    IF ~resp.ok THEN [status |-> "throw", list |-> <<>>]
    ELSE [status |-> "list",
          list |-> MapAll(SelectSeq(resp.data, LAMBDA r : ~MapThrows(r)))]

\* getAllCountries after the HTTP call settles: a rejection and a throwing
\* map both reach the catch block, which throws Error(FAILED_FETCH)
GetAllOutcome(resp) ==
    IF ~resp.ok THEN [status |-> "throw", list |-> <<>>]
    ELSE IF \E i \in DOMAIN resp.data : MapThrows(resp.data[i])
      THEN [status |-> "throw", list |-> <<>>]
    ELSE [status |-> "list", list |-> MapAll(resp.data)]

NoResult == [kind |-> "none", list |-> <<>>]

GaInit ==
    [pc |-> "idle", pending |-> <<>>, result |-> NoResult,
     fetched |-> FALSE, fetchFailed |-> FALSE, sets |-> 0, age |-> -1]
\* history field age: the age of the cached listing when the request read
\* the cache

\* GET countries: getAllCountries awaits the cache read
GetAllRequest(a) ==
    /\ ga[a].pc = "idle"
    /\ \A d \in GAIds : d < a => ga[d].pc # "idle"
    /\ ga' = [ga EXCEPT ![a].pc = "cacheGet"]
    /\ UNCHANGED <<votes, cache, cv, gt, bc, rankSnap, statsVars>>

\* the cache read resolves: hit returns the listing, miss awaits the HTTP
\* call
GetAllCacheGet(a) ==
    /\ ga[a].pc = "cacheGet"
    /\ IF CacheHit(CACHE_KEY_ALL_COUNTRIES)
         THEN ga' = [ga EXCEPT ![a].pc = "done",
                       ![a].age = AgeAtRead(CACHE_KEY_ALL_COUNTRIES),
                       ![a].result =
                          [kind |-> "list",
                           list |-> cache[CACHE_KEY_ALL_COUNTRIES].val]]
         ELSE ga' = [ga EXCEPT ![a].pc = "http",
                       ![a].age = AgeAtRead(CACHE_KEY_ALL_COUNTRIES)]
    /\ UNCHANGED <<votes, cache, cv, gt, bc, rankSnap, statsVars>>

\* the HTTP call settles: the call fails, or the cache write is awaited
GetAllHttp(a) ==
    /\ ga[a].pc = "http"
    /\ \E resp \in AllResponses :
         LET out == GetAllOutcome(resp)
             failed == ~resp.ok
                       \/ \E i \in DOMAIN resp.data : MapThrows(resp.data[i])
         IN ga' = [ga EXCEPT
                ![a].fetched = TRUE,
                ![a].fetchFailed = failed,
                ![a].pc = IF out.status = "list" THEN "cacheSet" ELSE "done",
                ![a].pending = out.list,
                ![a].result = IF out.status = "list" THEN NoResult
                              ELSE [kind |-> "DirectoryUnavailable",
                                    list |-> <<>>]]
    /\ UNCHANGED <<votes, cache, cv, gt, bc, rankSnap, statsVars>>

\* the cache write resolves: the listing is returned
GetAllCacheSet(a) ==
    /\ ga[a].pc = "cacheSet"
    /\ cache' = CacheSet(cache, CACHE_KEY_ALL_COUNTRIES, ga[a].pending,
                       COUNTRIES_CACHE_TTL)
    /\ ga' = [ga EXCEPT ![a].pc = "done",
                        ![a].sets = @ + 1,
                        ![a].pending = <<>>,
                        ![a].result = [kind |-> "list",
                                       list |-> ga[a].pending]]
    /\ UNCHANGED <<votes, cv, gt, bc, rankSnap, statsVars>>

\* ------------------------------------------------------- getTopCountries
GtInit ==
    [pc |-> "idle", limit |-> 0, agg |-> <<>>, i |-> 1, top |-> <<>>,
     pending |-> NoDetails, result |-> NoResult,
     snap |-> 0, mustSee |-> 0, hit |-> FALSE, aggFailed |-> FALSE,
     sets |-> 0, age |-> -1, resolved |-> {}]
\* history fields of a request: snap is the number of votes its ranking
\* was aggregated from, mustSee the index of the last vote whose createVote
\* had returned when it started, hit that it was served from the cache,
\* aggFailed that its aggregation failed, sets its ranking cache writes,
\* age the age of the cached ranking when it read the cache, resolved the
\* positions of the aggregation whose lookup delivered details (kept while
\* the loop runs)

\* history: index of the last stored vote whose createVote has returned
ReturnedUpTo ==
    LET idx == { i \in DOMAIN votes :
                   votes[i].by = 0 \/ cv[votes[i].by].pc = "done" }
    IN IF idx = {} THEN 0 ELSE CHOOSE i \in idx : \A j \in idx : j <= i

\* { ...countryDetails, voteCount: Number(item.voteCount) }
RankingEntry(details, item) ==
    [code |-> details.code, name |-> details.name,
     capital |-> details.capital, region |-> details.region,
     subregion |-> details.subregion, voteCount |-> item.voteCount]

\* Faulty variant, for comparison: the loop stops after limit items, resolved or not
EnrichAdvance_CountSkipped(r, top) ==
    LET next == r.i + 1
    IN [r EXCEPT !.top = top, !.i = next, !.pending = NoDetails,
                 !.pc = IF next <= Len(r.agg) /\ r.i < r.limit
                          THEN "bcCacheGet" ELSE "cacheSet"]

\* head of the for-of loop after item i was handled: the next item is
\* looked up unless the list is exhausted or limit entries are collected
EnrichAdvance(r, top) ==
    LET next == r.i + 1
    IN [r EXCEPT !.top = top, !.i = next, !.pending = NoDetails,
                 !.pc = IF next <= Len(r.agg) /\ Len(top) < r.limit
                          THEN "bcCacheGet" ELSE "cacheSet"]

\* return of a list: the locals of the call are gone
GetTopReturn(r, list) ==
    [r EXCEPT !.pc = "done", !.agg = <<>>, !.i = 1, !.top = <<>>,
              !.pending = NoDetails, !.resolved = {},
              !.result = [kind |-> "list", list |-> list]]

\* Faulty variant, for comparison: the catch block answers with an empty ranking
GetTopCatch_Fallback(r) ==
    [r EXCEPT !.pc = "done", !.agg = <<>>, !.i = 1, !.top = <<>>,
              !.pending = NoDetails, !.resolved = {},
              !.result = [kind |-> "list", list |-> <<>>]]

\* catch block of getTopCountries: log and rethrow
GetTopCatch(r) ==
    [r EXCEPT !.pc = "done", !.agg = <<>>, !.i = 1, !.top = <<>>,
              !.pending = NoDetails, !.resolved = {},
              !.result = [kind |-> "error", list |-> <<>>]]

\* GET votes/top: the controller computes limit, getTopCountries awaits
\* the cache read
GetTopRequest(g, q) ==
    /\ gt[g].pc = "idle"
    /\ \A h \in GTIds : h < g => gt[h].pc # "idle"
    /\ gt' = [gt EXCEPT ![g].pc = "cacheGet",
                        ![g].limit = ControllerLimit(q),
                        ![g].mustSee = ReturnedUpTo]
    /\ UNCHANGED <<votes, cache, cv, bc, ga, rankSnap, statsVars>>

\* GET votes/top again: a further call, once an earlier one has returned
GetTopNext(g, q) ==
    /\ gt[g].pc = "done"
    /\ gt' = [gt EXCEPT ![g] = [GtInit EXCEPT !.pc = "cacheGet",
                                              !.limit = ControllerLimit(q),
                                              !.mustSee = ReturnedUpTo]]
    /\ UNCHANGED <<votes, cache, cv, bc, ga, rankSnap, statsVars>>

\* the cache read resolves: hit returns cached.slice(0, limit), miss
\* awaits the aggregation
GetTopCacheGet(g) ==
    /\ gt[g].pc = "cacheGet"
    /\ IF CacheHit(CACHE_KEY_TOP_COUNTRIES)
         THEN gt' = [gt EXCEPT ![g] =
                GetTopReturn([gt[g] EXCEPT !.hit = TRUE, !.snap = rankSnap,
                               !.age = AgeAtRead(CACHE_KEY_TOP_COUNTRIES)],
                  SliceFromZero(cache[CACHE_KEY_TOP_COUNTRIES].val,
                                gt[g].limit))]
         ELSE gt' = [gt EXCEPT ![g].pc = "aggregate",
                       ![g].age = AgeAtRead(CACHE_KEY_TOP_COUNTRIES)]
    /\ UNCHANGED <<votes, cache, cv, bc, ga, rankSnap, statsVars>>

\* the aggregation resolves or rejects; on success the enrichment loop
\* starts
GetTopAggregate(g) ==
    /\ gt[g].pc = "aggregate"
    /\ \/ gt' = [gt EXCEPT ![g] =
                GetTopCatch([gt[g] EXCEPT !.aggFailed = TRUE])]
       \/ IF LimitStageRejects(gt[g].limit * TOP_COUNTRIES_FETCH_MULTIPLIER)
            THEN gt' = [gt EXCEPT ![g] =
                   GetTopCatch([gt[g] EXCEPT !.aggFailed = TRUE])]
            ELSE \E sorted \in GroupSortResults(votes) :
                   LET agg == LimitStage(sorted,
                                gt[g].limit * TOP_COUNTRIES_FETCH_MULTIPLIER)
                       r == [gt[g] EXCEPT !.agg = agg, !.i = 0,
                                          !.snap = Len(votes)]
                   IN gt' = [gt EXCEPT ![g] = EnrichAdvance(r, <<>>)]
    /\ UNCHANGED <<votes, cache, cv, bc, ga, rankSnap, statsVars>>

\* getCountryByCode inside the loop: the directory cache read resolves
GetTopLookupCacheGet(g) ==
    /\ gt[g].pc = "bcCacheGet"
    /\ LET item == gt[g].agg[gt[g].i]
           key == CountryKey(item.id)
       IN IF CacheHit(key)
            THEN gt' = [gt EXCEPT ![g] =
                   EnrichAdvance(
                     [gt[g] EXCEPT !.resolved = @ \cup {gt[g].i}],
                     Append(gt[g].top, RankingEntry(cache[key].val, item)))]
            ELSE gt' = [gt EXCEPT ![g].pc = "bcHttp"]
    /\ UNCHANGED <<votes, cache, cv, bc, ga, rankSnap, statsVars>>

\* getCountryByCode inside the loop: the HTTP call settles
GetTopLookupHttp(g) ==
    /\ gt[g].pc = "bcHttp"
    /\ \E resp \in AlphaResponses(gt[g].agg[gt[g].i].id) :
         LET out == LookupOutcome(resp)
         IN CASE out.status = "found" ->
                   gt' = [gt EXCEPT ![g].pc = "bcCacheSet",
                                    ![g].pending = out.details]
              [] out.status = "null" ->
                   gt' = [gt EXCEPT ![g] = EnrichAdvance(gt[g], gt[g].top)]
              [] out.status = "throw" ->
                   gt' = [gt EXCEPT ![g] = GetTopCatch(gt[g])]
    /\ UNCHANGED <<votes, cache, cv, bc, ga, rankSnap, statsVars>>

\* getCountryByCode inside the loop: the directory cache write resolves,
\* the details are returned and pushed with the vote count
GetTopLookupCacheSet(g) ==
    /\ gt[g].pc = "bcCacheSet"
    /\ LET item == gt[g].agg[gt[g].i]
       IN /\ cache' = CacheSet(cache, CountryKey(item.id), gt[g].pending,
                               COUNTRIES_CACHE_TTL)
          /\ gt' = [gt EXCEPT ![g] =
                EnrichAdvance(
                  [gt[g] EXCEPT !.resolved = @ \cup {gt[g].i}],
                  Append(gt[g].top, RankingEntry(gt[g].pending, item)))]
    /\ UNCHANGED <<votes, cv, bc, ga, rankSnap, statsVars>>

\* Faulty variant, for comparison: an empty ranking is not cached
StoreRanking_SkipEmpty(c, top) ==
    IF Len(top) = 0 THEN c
    ELSE CacheSet(c, CACHE_KEY_TOP_COUNTRIES, top, VOTES_CACHE_TTL)

\* cacheManager.set(CACHE_KEY_TOP_COUNTRIES, topCountries, CACHE_TTL)
StoreRanking(c, top) ==
    CacheSet(c, CACHE_KEY_TOP_COUNTRIES, top, VOTES_CACHE_TTL)

\* the ranking cache write resolves; topCountries is returned
GetTopCacheSet(g) ==
    /\ gt[g].pc = "cacheSet"
    /\ cache' = StoreRanking(cache, gt[g].top)
    /\ rankSnap' = gt[g].snap
    /\ gt' = [gt EXCEPT ![g] =
                GetTopReturn([gt[g] EXCEPT !.sets = @ + 1], gt[g].top)]
    /\ UNCHANGED <<votes, cv, bc, ga, statsVars>>

\* ------------------------------------------------------- searchCountries
\* the q query parameter: absent, or a string
NoQuery == [given |-> FALSE, text |-> <<>>]
SearchQueries ==
    { NoQuery } \cup
    { [given |-> TRUE, text |-> q] :
        q \in { <<>>, <<"a">>, <<"t", "a">>, <<"A", "R">>, <<"x", "y">> } }

\* CountriesController.searchCountries: !query || query.length < 2
QueryRejected(q) ==
    \/ ~q.given
    \/ Len(q.text) = 0
    \/ Len(q.text) < SEARCH_QUERY_MIN_LENGTH

\* String.prototype.includes
Includes(s, sub) ==
    \E k \in 0..(Len(s) - Len(sub)) :
        \A i \in 1..Len(sub) : s[k + i] = sub[i]

\* Faulty variant, for comparison: the query is not lower-cased
FilterByName_CaseSensitive(list, query) ==
    SelectSeq(list, LAMBDA country :
                Includes(ToLowerCase(country.name), query))

\* allCountries.filter(country =>
\*   country.name.toLowerCase().includes(query.toLowerCase()))
FilterByName(list, query) ==
    SelectSeq(list, LAMBDA country :
                Includes(ToLowerCase(country.name), ToLowerCase(query)))

SrInit ==
    [pc |-> "idle", query |-> NoQuery, pending |-> <<>>,
     result |-> [kind |-> "none", error |-> FALSE, results |-> <<>>],
     called |-> FALSE, cacheReads |-> 0, fetches |-> 0, listing |-> <<>>]
\* history fields of a request: called that the controller invoked the
\* service, cacheReads and fetches its reads of the cache and of the
\* external directory, listing the full listing its filter ran over

\* Faulty variant, for comparison: the controller does not check the query
SearchEnter_NoCheck(r, q) ==
    [r EXCEPT !.pc = "cacheGet", !.query = q, !.called = TRUE]

\* GET countries/search: the controller answers a rejected query itself,
\* otherwise searchCountries awaits the cache read of getAllCountries
SearchEnter(r, q) ==
    IF QueryRejected(q)
      THEN [r EXCEPT !.pc = "done", !.query = q,
                     !.result = [kind |-> "response", error |-> TRUE,
                                 results |-> <<>>]]
      ELSE [r EXCEPT !.pc = "cacheGet", !.query = q, !.called = TRUE]

SearchRequest(s, q) ==
    /\ sr[s].pc = "idle"
    /\ \A d \in SRIds : d < s => sr[d].pc # "idle"
    /\ sr' = [sr EXCEPT ![s] = SearchEnter(sr[s], q)]
    /\ UNCHANGED <<votes, cache, cv, gt, bc, ga, rankSnap, now,
                   br, tl, hv, ds>>

\* return of searchCountries: the controller wraps the filtered listing
SearchReturn(r, all) ==
    [r EXCEPT !.pc = "done", !.pending = <<>>, !.listing = all,
              !.result = [kind |-> "response", error |-> FALSE,
                          results |-> FilterByName(all, r.query.text)]]

\* getAllCountries inside searchCountries: the cache read resolves
SearchCacheGet(s) ==
    /\ sr[s].pc = "cacheGet"
    /\ LET r == [sr[s] EXCEPT !.cacheReads = @ + 1]
       IN IF CacheHit(CACHE_KEY_ALL_COUNTRIES)
            THEN sr' = [sr EXCEPT ![s] =
                   SearchReturn(r, cache[CACHE_KEY_ALL_COUNTRIES].val)]
            ELSE sr' = [sr EXCEPT ![s] = [r EXCEPT !.pc = "http"]]
    /\ UNCHANGED <<votes, cache, cv, gt, bc, ga, rankSnap, now,
                   br, tl, hv, ds>>

\* getAllCountries inside searchCountries: the HTTP call settles; a failure
\* leaves searchCountries as Error(FAILED_FETCH)
SearchHttp(s) ==
    /\ sr[s].pc = "http"
    /\ \E resp \in AllResponses :
         LET out == GetAllOutcome(resp)
             r == [sr[s] EXCEPT !.fetches = @ + 1]
         IN IF out.status = "list"
              THEN sr' = [sr EXCEPT ![s] =
                     [r EXCEPT !.pc = "cacheSet", !.pending = out.list]]
              ELSE sr' = [sr EXCEPT ![s] =
                     [r EXCEPT !.pc = "done",
                               !.result = [kind |-> "DirectoryUnavailable",
                                           error |-> FALSE,
                                           results |-> <<>>]]]
    /\ UNCHANGED <<votes, cache, cv, gt, bc, ga, rankSnap, now,
                   br, tl, hv, ds>>

\* getAllCountries inside searchCountries: the cache write resolves, the
\* listing is filtered
SearchCacheSet(s) ==
    /\ sr[s].pc = "cacheSet"
    /\ cache' = CacheSet(cache, CACHE_KEY_ALL_COUNTRIES, sr[s].pending,
                         COUNTRIES_CACHE_TTL)
    /\ sr' = [sr EXCEPT ![s] = SearchReturn(sr[s], sr[s].pending)]
    /\ UNCHANGED <<votes, cv, gt, bc, ga, rankSnap, now, br, tl, hv, ds>>

\* ------------------------------------------------------ getVotesByRegion
\* countryDetails.subregion || countryDetails.region
RegionKey(details) ==
    IF details.subregion = "" THEN details.region ELSE details.subregion

\* regionMap.set(region, (regionMap.get(region) || 0) + 1); a Map keeps
\* its keys in insertion order
Bump(map, key) ==
    IF \E i \in DOMAIN map : map[i].region = key
      THEN [i \in DOMAIN map |->
              IF map[i].region = key
                THEN [map[i] EXCEPT !.votes = @ + 1] ELSE map[i]]
      ELSE Append(map, [region |-> key, votes |-> 1])

\* Faulty variant, for comparison: a vote whose country is not resolved is counted too
TallyVote_CountAbsent(map, out) ==
    IF out.status = "found" THEN Bump(map, RegionKey(out.details))
    ELSE Bump(map, "Unknown")

\* body of the loop after getCountryByCode returned: if (countryDetails)
TallyVote(map, out) ==
    IF out.status = "found" THEN Bump(map, RegionKey(out.details))
    ELSE map

BrInit ==
    [pc |-> "idle", scan |-> <<>>, i |-> 1, map |-> <<>>,
     pending |-> NoDetails, result |-> [kind |-> "none", list |-> <<>>],
     codes |-> <<>>, seen |-> <<>>]
\* history fields of a request: codes the countryCode of every vote its
\* find returned, seen whether getCountryByCode resolved each of them

\* head of the for-of loop: the next vote is looked up, or the map
\* entries are returned
ByRegionNext(r, map, seen) ==
    LET next == r.i + 1
    IN IF next <= Len(r.scan)
         THEN [r EXCEPT !.map = map, !.seen = seen, !.i = next,
                        !.pending = NoDetails, !.pc = "bcCacheGet"]
         ELSE [r EXCEPT !.map = <<>>, !.seen = seen, !.i = 1,
                        !.scan = <<>>, !.pending = NoDetails, !.pc = "done",
                        !.result = [kind |-> "list", list |-> map]]

\* the loop after getCountryByCode returned for vote i
ByRegionAdvance(r, out) ==
    ByRegionNext(r, TallyVote(r.map, out),
                 Append(r.seen, out.status = "found"))

\* GET statistics/regions: getVotesByRegion awaits find()
ByRegionRequest(r) ==
    /\ br[r].pc = "idle"
    /\ \A d \in BRIds : d < r => br[d].pc # "idle"
    /\ br' = [br EXCEPT ![r].pc = "find"]
    /\ UNCHANGED <<votes, cache, cv, gt, bc, ga, rankSnap, now,
                   sr, tl, hv, ds>>

\* find() resolves with all votes or rejects; the loop starts
ByRegionFind(r) ==
    /\ br[r].pc = "find"
    /\ \/ br' = [br EXCEPT ![r].pc = "done",
                           ![r].result = [kind |-> "error", list |-> <<>>]]
       \/ LET start == [br[r] EXCEPT
                          !.scan = votes, !.i = 0,
                          !.codes = [i \in DOMAIN votes |->
                                       votes[i].countryCode]]
          IN br' = [br EXCEPT ![r] = ByRegionNext(start, <<>>, <<>>)]
    /\ UNCHANGED <<votes, cache, cv, gt, bc, ga, rankSnap, now,
                   sr, tl, hv, ds>>

\* getCountryByCode inside the loop: the directory cache read resolves
ByRegionLookupCacheGet(r) ==
    /\ br[r].pc = "bcCacheGet"
    /\ LET key == CountryKey(br[r].scan[br[r].i].countryCode)
       IN IF CacheHit(key)
            THEN br' = [br EXCEPT ![r] =
                   ByRegionAdvance(br[r], [status |-> "found",
                                           details |-> cache[key].val])]
            ELSE br' = [br EXCEPT ![r].pc = "bcHttp"]
    /\ UNCHANGED <<votes, cache, cv, gt, bc, ga, rankSnap, now,
                   sr, tl, hv, ds>>

\* getCountryByCode inside the loop: the HTTP call settles
ByRegionLookupHttp(r) ==
    /\ br[r].pc = "bcHttp"
    /\ \E resp \in AlphaResponses(br[r].scan[br[r].i].countryCode) :
         LET out == LookupOutcome(resp)
         IN CASE out.status = "found" ->
                   br' = [br EXCEPT ![r].pc = "bcCacheSet",
                                    ![r].pending = out.details]
              [] out.status = "null" ->
                   br' = [br EXCEPT ![r] = ByRegionAdvance(br[r], Null)]
              [] out.status = "throw" ->
                   br' = [br EXCEPT ![r].pc = "done", ![r].scan = <<>>,
                            ![r].map = <<>>, ![r].i = 1,
                            ![r].result = [kind |-> "error", list |-> <<>>]]
    /\ UNCHANGED <<votes, cache, cv, gt, bc, ga, rankSnap, now,
                   sr, tl, hv, ds>>

\* getCountryByCode inside the loop: the directory cache write resolves
ByRegionLookupCacheSet(r) ==
    /\ br[r].pc = "bcCacheSet"
    /\ cache' = CacheSet(cache,
                         CountryKey(br[r].scan[br[r].i].countryCode),
                         br[r].pending, COUNTRIES_CACHE_TTL)
    /\ br' = [br EXCEPT ![r] =
                ByRegionAdvance(br[r], [status |-> "found",
                                        details |-> br[r].pending])]
    /\ UNCHANGED <<votes, cv, gt, bc, ga, rankSnap, now, sr, tl, hv, ds>>

\* ------------------------------------------------------ getVotesTimeline
\* date.toISOString().split('T')[0]: the UTC calendar date of an instant,
\* as the number of the day it falls on
DateKey(t) == t \div MS_PER_DAY

\* sort key of a document under sort({ createdAt: 1 }): a missing field
\* sorts as null, before every date
CreatedAtRank(doc) ==
    IF doc.createdAt.defined THEN <<1, doc.createdAt.t>> ELSE <<0, 0>>

RankLeq(a, b) == a[1] < b[1] \/ (a[1] = b[1] /\ a[2] <= b[2])

\* Faulty variant, for comparison: the documents come back in insertion order
FindSortedByCreatedAt_NoSort(store) == { store }

\* find().sort({ createdAt: 1 }): every order of the documents that is
\* non-decreasing in createdAt
FindSortedByCreatedAt(store) ==
    LET n == Len(store)
        perms == { f \in [1..n -> 1..n] :
                     \A i, j \in 1..n : i # j => f[i] # f[j] }
    IN { [i \in 1..n |-> store[f[i]]] :
           f \in { g \in perms :
                     \A i \in 1..n : \A j \in 1..n :
                        i < j => RankLeq(CreatedAtRank(store[g[i]]),
                                         CreatedAtRank(store[g[j]])) } }

\* timelineMap.set(dateKey, (timelineMap.get(dateKey) || 0) + 1)
BumpDate(map, key) ==
    IF \E i \in DOMAIN map : map[i].date = key
      THEN [i \in DOMAIN map |->
              IF map[i].date = key
                THEN [map[i] EXCEPT !.votes = @ + 1] ELSE map[i]]
      ELSE Append(map, [date |-> key, votes |-> 1])

\* votes.forEach(...): documents without createdAt are passed over
RECURSIVE TimelineFold(_, _)
TimelineFold(docs, map) ==
    IF Len(docs) = 0 THEN map
    ELSE TimelineFold(Tail(docs),
           IF docs[1].createdAt.defined
             THEN BumpDate(map, DateKey(docs[1].createdAt.t))
             ELSE map)

TlInit ==
    [pc |-> "idle", result |-> [kind |-> "none", list |-> <<>>],
     scanned |-> <<>>]
\* history field of a request: scanned, the createdAt of every vote in the
\* store when its find resolved

\* GET statistics/timeline: getVotesTimeline awaits find().sort().select()
TimelineRequest(t) ==
    /\ tl[t].pc = "idle"
    /\ \A d \in TLIds : d < t => tl[d].pc # "idle"
    /\ tl' = [tl EXCEPT ![t].pc = "find"]
    /\ UNCHANGED <<votes, cache, cv, gt, bc, ga, rankSnap, now,
                   sr, br, hv, ds>>

\* the query resolves or rejects; the entries of the map are returned
TimelineFind(t) ==
    /\ tl[t].pc = "find"
    /\ \/ tl' = [tl EXCEPT ![t].pc = "done",
                           ![t].result = [kind |-> "error", list |-> <<>>]]
       \/ \E docs \in FindSortedByCreatedAt(votes) :
            tl' = [tl EXCEPT
                     ![t].pc = "done",
                     ![t].scanned = [i \in DOMAIN votes |->
                                       votes[i].createdAt],
                     ![t].result = [kind |-> "list",
                                    list |-> TimelineFold(docs, <<>>)]]
    /\ UNCHANGED <<votes, cache, cv, gt, bc, ga, rankSnap, now,
                   sr, br, hv, ds>>

\* -------------------------------------------------------------- hasVoted
HvInit == [pc |-> "idle", email |-> <<>>, result |-> "none"]

\* hasVoted(email) awaits findOne({ email: email.toLowerCase() })
HasVotedRequest(h, email) ==
    /\ hv[h].pc = "idle"
    /\ \A d \in HVIds : d < h => hv[d].pc # "idle"
    /\ hv' = [hv EXCEPT ![h].pc = "findOne", ![h].email = email]
    /\ UNCHANGED <<votes, cache, cv, gt, bc, ga, rankSnap, now,
                   sr, br, tl, ds>>

\* findOne resolves or rejects: !!vote
HasVotedFindOne(h) ==
    /\ hv[h].pc = "findOne"
    /\ \/ hv' = [hv EXCEPT ![h].pc = "done", ![h].result = "error"]
       \/ hv' = [hv EXCEPT
                   ![h].pc = "done",
                   ![h].result =
                      IF FindOneByEmail(votes, ToLowerCase(hv[h].email))
                        THEN "true" ELSE "false"]
    /\ UNCHANGED <<votes, cache, cv, gt, bc, ga, rankSnap, now,
                   sr, br, tl, ds>>

\* ------------------------------------------------------ getDetailedStats
NoStats ==
    [kind |-> "none", totalVotes |-> 0, uniqueCountries |-> 0,
     votesByRegion |-> <<>>, timeline |-> <<>>]
DsInit ==
    [pc |-> "idle", totalVotes |-> 0, uniqueCountries |-> 0,
     votesByRegion |-> <<>>, result |-> NoStats]

\* a rejected await leaves getDetailedStats with the error
DetailedStatsThrow(r) ==
    [r EXCEPT !.pc = "done", !.totalVotes = 0, !.uniqueCountries = 0,
              !.votesByRegion = <<>>,
              !.result = [NoStats EXCEPT !.kind = "error"]]

\* GET statistics: getDetailedStats awaits getTotalVotes()
DetailedStatsRequest(d) ==
    /\ ds[d].pc = "idle"
    /\ \A e \in DSIds : e < d => ds[e].pc # "idle"
    /\ ds' = [ds EXCEPT ![d].pc = "count"]
    /\ UNCHANGED <<votes, cache, cv, gt, bc, ga, rankSnap, now,
                   sr, br, tl, hv>>

\* countDocuments() resolves or rejects; distinct('countryCode') is awaited
DetailedStatsCount(d) ==
    /\ ds[d].pc = "count"
    /\ \/ ds' = [ds EXCEPT ![d] = DetailedStatsThrow(ds[d])]
       \/ ds' = [ds EXCEPT ![d].pc = "distinct",
                           ![d].totalVotes = Len(votes)]
    /\ UNCHANGED <<votes, cache, cv, gt, bc, ga, rankSnap, now,
                   sr, br, tl, hv>>

\* distinct('countryCode') resolves or rejects; getVotesByRegion() is
\* called and awaits its find()
DetailedStatsDistinct(d) ==
    /\ ds[d].pc = "distinct"
    /\ br[d].pc = "idle"
    /\ \/ /\ ds' = [ds EXCEPT ![d] = DetailedStatsThrow(ds[d])]
          /\ UNCHANGED br
       \/ /\ ds' = [ds EXCEPT ![d].pc = "regions",
                              ![d].uniqueCountries =
                                 Cardinality(GroupIds(votes))]
          /\ br' = [br EXCEPT ![d].pc = "find"]
    /\ UNCHANGED <<votes, cache, cv, gt, bc, ga, rankSnap, now,
                   sr, tl, hv>>

\* getVotesByRegion() has returned or thrown; getVotesTimeline() is called
\* and awaits its query
DetailedStatsRegions(d) ==
    /\ ds[d].pc = "regions"
    /\ br[d].pc = "done"
    /\ tl[d].pc = "idle"
    /\ IF br[d].result.kind = "list"
         THEN /\ ds' = [ds EXCEPT ![d].pc = "timeline",
                          ![d].votesByRegion = br[d].result.list]
              /\ tl' = [tl EXCEPT ![d].pc = "find"]
         ELSE /\ ds' = [ds EXCEPT ![d] = DetailedStatsThrow(ds[d])]
              /\ UNCHANGED tl
    /\ UNCHANGED <<votes, cache, cv, gt, bc, ga, rankSnap, now,
                   sr, br, hv>>

\* getVotesTimeline() has returned or thrown; the object is returned
DetailedStatsTimeline(d) ==
    /\ ds[d].pc = "timeline"
    /\ tl[d].pc = "done"
    /\ IF tl[d].result.kind = "list"
         THEN ds' = [ds EXCEPT
                ![d].pc = "done", ![d].totalVotes = 0,
                ![d].uniqueCountries = 0, ![d].votesByRegion = <<>>,
                ![d].result =
                   [kind |-> "stats",
                    totalVotes |-> ds[d].totalVotes,
                    uniqueCountries |-> ds[d].uniqueCountries,
                    votesByRegion |-> ds[d].votesByRegion,
                    timeline |-> tl[d].result.list]]
         ELSE ds' = [ds EXCEPT ![d] = DetailedStatsThrow(ds[d])]
    /\ UNCHANGED <<votes, cache, cv, gt, bc, ga, rankSnap, now,
                   sr, br, tl, hv>>

\* ----------------------------------------------------------------- clock
\* time passes: by the TTL of the ranking, or by one millisecond more
\* than the TTL of the directory entries
TickSteps == { VOTES_CACHE_TTL, COUNTRIES_CACHE_TTL + 1 }

Tick(d) ==
    /\ now.ticks < MaxTicks
    /\ now' = [t |-> now.t + d, ticks |-> now.ticks + 1]
    /\ UNCHANGED <<votes, cache, cv, gt, bc, ga, rankSnap, sr, br, tl, hv, ds>>

\* ------------------------------------------------------------------ TTL
\* Faulty variant, for comparison: only an entry stored without TTL leaves the cache
Expire_Never(key) ==
    /\ cache[key].present
    /\ cache[key].ttl = 0
    /\ cache' = [cache EXCEPT ![key] = NoEntry]
    /\ rankSnap' = IF key = CACHE_KEY_TOP_COUNTRIES THEN 0 ELSE rankSnap
    /\ UNCHANGED <<votes, cv, gt, bc, ga, statsVars>>

\* the TTL of an entry elapses: the next get of the key misses
Expire(key) ==
    /\ cache[key].present
    /\ cache' = [cache EXCEPT ![key] = NoEntry]
    /\ rankSnap' = IF key = CACHE_KEY_TOP_COUNTRIES THEN 0 ELSE rankSnap
    /\ UNCHANGED <<votes, cv, gt, bc, ga, statsVars>>

\* --------------------------------------------------------- specification
\* votes that were stored before the process started (by = 0)
SeededStore ==
    << [name |-> <<"J", "o">>, email |-> <<"c", "@", "x">>,
        countryCode |-> <<"I", "T", "A">>, by |-> 0,
        createdAt |-> [defined |-> TRUE, t |-> 0]],
       [name |-> <<"J", "o">>, email |-> <<"d", "@", "x">>,
        countryCode |-> <<"I", "T", "A">>, by |-> 0,
        createdAt |-> [defined |-> TRUE, t |-> 0]],
       [name |-> <<"J", "o">>, email |-> <<"b", "@", "x">>,
        countryCode |-> <<"A", "T", "A">>, by |-> 0,
        createdAt |-> [defined |-> TRUE, t |-> 0]] >>
InitialStores == { <<>>, SeededStore }

InitAt(t0) ==
    /\ cache = [k \in CacheKeys |-> NoEntry]
    /\ cv = [c \in CVIds |-> CvInit]
    /\ gt = [g \in GTIds |-> GtInit]
    /\ bc = [b \in BCIds |-> BcInit]
    /\ ga = [a \in GAIds |-> GaInit]
    /\ rankSnap = 0
    /\ now = [t |-> t0, ticks |-> 0]
    /\ sr = [s \in SRIds |-> SrInit]
    /\ br = [r \in BRIds |-> BrInit]
    /\ tl = [t \in TLIds |-> TlInit]
    /\ hv = [h \in HVIds |-> HvInit]
    /\ ds = [d \in DSIds |-> DsInit]

InitRest == InitAt(0)

\* Vote Intake alone: concurrent createVote requests on an empty store
InitVotes == votes = <<>> /\ InitRest

NextVotes ==
    \/ \E c \in VoteCVIds, input \in CreateVoteInputs :
         CreateVoteRequest(c, input)
    \/ \E c \in VoteCVIds : CreateVoteFindOne(c)
    \/ \E c \in VoteCVIds : CreateVoteSave(c)
    \/ \E c \in VoteCVIds : CreateVoteDel(c)

SpecVotes == InitVotes /\ [][NextVotes]_vars

\* Vote Intake and Ranking Engine over the directory and the cache
InitRank == votes \in InitialStores /\ InitRest

NextRank ==
    \/ \E c \in RankCVIds, input \in RankVoteInputs :
         CreateVoteRequest(c, input)
    \/ \E c \in RankCVIds : CreateVoteFindOne(c)
    \/ \E c \in RankCVIds : CreateVoteSave(c)
    \/ \E c \in RankCVIds : CreateVoteDel(c)
    \/ \E g \in GTIds, q \in QueryLimits : GetTopRequest(g, q)
    \/ \E g \in GTIds : GetTopCacheGet(g)
    \/ \E g \in GTIds : GetTopAggregate(g)
    \/ \E g \in GTIds : GetTopLookupCacheGet(g)
    \/ \E g \in GTIds : GetTopLookupHttp(g)
    \/ \E g \in GTIds : GetTopLookupCacheSet(g)
    \/ \E g \in GTIds : GetTopCacheSet(g)
    \/ \E key \in CacheKeys : Expire(key)

SpecRank == InitRank /\ [][NextRank]_vars

\* Country Directory Cache alone: concurrent directory reads
InitDir == votes = <<>> /\ InitRest

NextDir ==
    \/ \E b \in BCIds, code \in LookupCodes : GetByCodeRequest(b, code)
    \/ \E b \in BCIds : GetByCodeCacheGet(b)
    \/ \E b \in BCIds : GetByCodeHttp(b)
    \/ \E b \in BCIds : GetByCodeCacheSet(b)
    \/ \E a \in GAIds : GetAllRequest(a)
    \/ \E a \in GAIds : GetAllCacheGet(a)
    \/ \E a \in GAIds : GetAllHttp(a)
    \/ \E a \in GAIds : GetAllCacheSet(a)
    \/ \E key \in CacheKeys : Expire(key)

SpecDir == InitDir /\ [][NextDir]_vars

\* Directory search over the directory cache
InitSearch == votes = <<>> /\ InitRest

NextSearch ==
    \/ \E s \in SRIds, q \in SearchQueries : SearchRequest(s, q)
    \/ \E s \in SRIds : SearchCacheGet(s)
    \/ \E s \in SRIds : SearchHttp(s)
    \/ \E s \in SRIds : SearchCacheSet(s)
    \/ Expire(CACHE_KEY_ALL_COUNTRIES)

SpecSearch == InitSearch /\ [][NextSearch]_vars

\* Analytics Views next to Vote Intake.  The stored votes were created on
\* two days, not in the order of their dates; one has no createdAt and one
\* names a country the directory does not list.
StatsStore ==
    << [name |-> <<"J", "o">>, email |-> <<"c", "@", "x">>,
        countryCode |-> <<"I", "T", "A">>, by |-> 0,
        createdAt |-> [defined |-> TRUE, t |-> MS_PER_DAY + 1000]],
       [name |-> <<"J", "o">>, email |-> <<"d", "@", "x">>,
        countryCode |-> <<"A", "T", "A">>, by |-> 0,
        createdAt |-> [defined |-> TRUE, t |-> 36000000]],
       [name |-> <<"J", "o">>, email |-> <<"e", "@", "x">>,
        countryCode |-> <<"Z", "Z", "Z">>, by |-> 0,
        createdAt |-> [defined |-> TRUE, t |-> 54000000]],
       [name |-> <<"J", "o">>, email |-> <<"f", "@", "x">>,
        countryCode |-> <<"I", "T", "A">>, by |-> 0,
        createdAt |-> [defined |-> FALSE, t |-> 0]] >>
StatsStart == 2 * MS_PER_DAY + 7200000

InitStats == votes \in { <<>>, StatsStore } /\ InitAt(StatsStart)

NextStats ==
    \/ \E c \in RankCVIds, input \in RankVoteInputs :
         CreateVoteRequest(c, input)
    \/ \E c \in RankCVIds : CreateVoteFindOne(c)
    \/ \E c \in RankCVIds : CreateVoteSave(c)
    \/ \E c \in RankCVIds : CreateVoteDel(c)
    \/ \E r \in BRIds : ByRegionRequest(r)
    \/ \E r \in BRIds : ByRegionFind(r)
    \/ \E r \in BRIds : ByRegionLookupCacheGet(r)
    \/ \E r \in BRIds : ByRegionLookupHttp(r)
    \/ \E r \in BRIds : ByRegionLookupCacheSet(r)
    \/ \E t \in TLIds : TimelineRequest(t)
    \/ \E t \in TLIds : TimelineFind(t)
    \/ \E h \in HVIds, e \in Emails : HasVotedRequest(h, e)
    \/ \E h \in HVIds : HasVotedFindOne(h)

SpecStats == InitStats /\ [][NextStats]_vars

\* Every operation that reaches the Vote Store, side by side
InitLife == votes = SubSeq(StatsStore, 2, 2) /\ InitAt(StatsStart)

NextLife ==
    \/ \E c \in RankCVIds, input \in RankVoteInputs :
         CreateVoteRequest(c, input)
    \/ \E c \in RankCVIds : CreateVoteFindOne(c)
    \/ \E c \in RankCVIds : CreateVoteSave(c)
    \/ \E c \in RankCVIds : CreateVoteDel(c)
    \/ GetTopRequest(1, <<>>)
    \/ GetTopCacheGet(1)
    \/ GetTopAggregate(1)
    \/ GetTopLookupCacheGet(1)
    \/ GetTopLookupHttp(1)
    \/ GetTopLookupCacheSet(1)
    \/ GetTopCacheSet(1)
    \/ \E r \in BRIds : ByRegionRequest(r)
    \/ \E r \in BRIds : ByRegionFind(r)
    \/ \E r \in BRIds : ByRegionLookupCacheGet(r)
    \/ \E r \in BRIds : ByRegionLookupHttp(r)
    \/ \E r \in BRIds : ByRegionLookupCacheSet(r)
    \/ \E t \in TLIds : TimelineRequest(t)
    \/ \E t \in TLIds : TimelineFind(t)
    \/ \E h \in HVIds : HasVotedRequest(h, <<"A", "@", "x">>)
    \/ \E h \in HVIds : HasVotedFindOne(h)

SpecLife == InitLife /\ [][NextLife]_vars

\* getDetailedStats next to Vote Intake
NextDetail ==
    \/ \E c \in RankCVIds, input \in RankVoteInputs :
         CreateVoteRequest(c, input)
    \/ \E c \in RankCVIds : CreateVoteFindOne(c)
    \/ \E c \in RankCVIds : CreateVoteSave(c)
    \/ \E c \in RankCVIds : CreateVoteDel(c)
    \/ \E d \in DSIds : DetailedStatsRequest(d)
    \/ \E d \in DSIds : DetailedStatsCount(d)
    \/ \E d \in DSIds : DetailedStatsDistinct(d)
    \/ \E d \in DSIds : DetailedStatsRegions(d)
    \/ \E d \in DSIds : DetailedStatsTimeline(d)
    \/ \E r \in BRIds : ByRegionFind(r)
    \/ \E r \in BRIds : ByRegionLookupCacheGet(r)
    \/ \E r \in BRIds : ByRegionLookupHttp(r)
    \/ \E r \in BRIds : ByRegionLookupCacheSet(r)
    \/ \E t \in TLIds : TimelineFind(t)

InitDetail ==
    votes \in { <<>>, SubSeq(StatsStore, 2, 3) } /\ InitAt(StatsStart)

SpecDetail == InitDetail /\ [][NextDetail]_vars

\* Ranking Engine over votes that name one country by its alpha-3 code and
\* by its numeric code
AliasVoteInputs ==
    [name : { <<"J", "o">> }, email : { <<"a", "@", "x">>, <<"b", "@", "x">> },
     countryCode : { <<"I", "T", "A">>, <<"3", "8", "0">> }]

NextAlias ==
    \/ \E c \in VoteCVIds, input \in AliasVoteInputs :
         CreateVoteRequest(c, input)
    \/ \E c \in VoteCVIds : CreateVoteFindOne(c)
    \/ \E c \in VoteCVIds : CreateVoteSave(c)
    \/ \E c \in VoteCVIds : CreateVoteDel(c)
    \/ GetTopRequest(1, <<>>)
    \/ GetTopCacheGet(1)
    \/ GetTopAggregate(1)
    \/ GetTopLookupCacheGet(1)
    \/ GetTopLookupHttp(1)
    \/ GetTopLookupCacheSet(1)
    \/ GetTopCacheSet(1)

InitAlias == votes = <<>> /\ InitRest

SpecAlias == InitAlias /\ [][NextAlias]_vars

\* Ranking Engine called again and again next to Vote Intake.  Every
\* pending await of a getTopCountries call settles, and the TTL of a cached
\* ranking elapses.
GetTopStep(g) ==
    \/ GetTopCacheGet(g)
    \/ GetTopAggregate(g)
    \/ GetTopLookupCacheGet(g)
    \/ GetTopLookupHttp(g)
    \/ GetTopLookupCacheSet(g)
    \/ GetTopCacheSet(g)

NextConverge ==
    \/ \E c \in RankCVIds, input \in RankVoteInputs :
         CreateVoteRequest(c, input)
    \/ \E c \in RankCVIds : CreateVoteFindOne(c)
    \/ \E c \in RankCVIds : CreateVoteSave(c)
    \/ \E c \in RankCVIds : CreateVoteDel(c)
    \/ \E g \in GTIds, q \in { <<>>, <<"1">> } : GetTopRequest(g, q)
    \/ \E g \in GTIds, q \in { <<>>, <<"1">> } : GetTopNext(g, q)
    \/ \E g \in GTIds : GetTopStep(g)
    \/ Expire(CACHE_KEY_TOP_COUNTRIES)

InitConverge == votes = SubSeq(SeededStore, 3, 3) /\ InitRest

SpecConverge ==
    /\ InitConverge
    /\ [][NextConverge]_vars
    /\ \A g \in GTIds : WF_vars(GetTopStep(g))
    /\ WF_vars(Expire(CACHE_KEY_TOP_COUNTRIES))

\* Ranking Engine and directory listing under the clock: the stored votes
\* do not change, time advances between and during the requests
InitTtl == votes = SeededStore /\ InitRest

NextTtl ==
    \/ \E g \in GTIds : GetTopRequest(g, <<>>)
    \/ \E g \in GTIds : GetTopCacheGet(g)
    \/ \E g \in GTIds : GetTopAggregate(g)
    \/ \E g \in GTIds : GetTopLookupCacheGet(g)
    \/ \E g \in GTIds : GetTopLookupHttp(g)
    \/ \E g \in GTIds : GetTopLookupCacheSet(g)
    \/ \E g \in GTIds : GetTopCacheSet(g)
    \/ \E a \in GAIds : GetAllRequest(a)
    \/ \E a \in GAIds : GetAllCacheGet(a)
    \/ \E a \in GAIds : GetAllHttp(a)
    \/ \E a \in GAIds : GetAllCacheSet(a)
    \/ \E d \in TickSteps : Tick(d)

SpecTtl == InitTtl /\ [][NextTtl]_vars

\* ------------------------------------------------------------ properties
\* requests that reached the service (passed validation) with normalized
\* email e
Submitted(e) ==
    { c \in CVIds : /\ cv[c].pc # "idle"
                    /\ cv[c].result # "validation_error"
                    /\ ToLowerCase(cv[c].dto.email) = e }

NormalizedEmails == { ToLowerCase(e) : e \in Emails }

StoredBy(c) == { i \in DOMAIN votes : votes[i].by = c }

\* C1: in every reachable state the Vote Store holds at most one vote per
\* normalized (lowercased) email, whatever the interleaving of createVote
\* calls.
C1_OneVotePerEmail ==
    \A i, j \in DOMAIN votes :
        i # j => ToLowerCase(votes[i].email) # ToLowerCase(votes[j].email)

\* two requests with the same normalized email both passed the pre-check
\* and both finished
C1_Witness ==
    \E c, d \in CVIds :
        /\ c # d
        /\ cv[c].pc = "done" /\ cv[d].pc = "done"
        /\ cv[c].passed /\ cv[d].passed
        /\ ToLowerCase(cv[c].dto.email) = ToLowerCase(cv[d].dto.email)
        /\ cv[c].result = "ok" /\ cv[d].result = "conflict"

\* C2: when all the createVote calls submitted with one email have
\* finished and the Vote Store answered each of them, exactly one of them
\* persisted a vote and returned it and every other one failed with
\* DuplicateVote, none with a generic error and none with success.
C2_ExactlyOnePersists ==
    \A e \in NormalizedEmails :
        LET S == Submitted(e)
        IN (S # {} /\ \A c \in S : cv[c].pc = "done" /\ ~cv[c].outage)
           => /\ Cardinality({ c \in S : cv[c].result = "ok" }) = 1
              /\ \A c \in S : cv[c].result \in {"ok", "conflict"}
              /\ \A c \in S : cv[c].result = "ok" <=> StoredBy(c) # {}
              /\ Cardinality({ i \in DOMAIN votes : votes[i].email = e }) = 1

\* every request was submitted with the same email as typed, each passed
\* the pre-check before any of them saved, and all have finished
C2_Witness ==
    /\ \A c \in VoteCVIds :
         /\ cv[c].pc = "done" /\ cv[c].passed /\ ~cv[c].outage
         /\ cv[c].dto.email = cv[1].dto.email
    /\ Cardinality({ c \in VoteCVIds : cv[c].result = "conflict" })
         = NumCreateVote - 1

\* C3: a createVote whose normalized email no other request has stored
\* succeeds; a createVote that arrives when the store already holds its
\* email in any casing never succeeds, writes no record and, the store
\* answering, fails with DuplicateVote.
C3_SuccessOnceThenDuplicate ==
    \A c \in CVIds :
        (cv[c].pc = "done" /\ cv[c].result # "validation_error")
        => /\ cv[c].late
                => /\ cv[c].result # "ok"
                   /\ cv[c].writes = 0 /\ StoredBy(c) = {}
                   /\ ~cv[c].outage => cv[c].result = "conflict"
           /\ ( /\ ~cv[c].outage
                /\ \A i \in DOMAIN votes :
                     votes[i].email = ToLowerCase(cv[c].dto.email)
                       => votes[i].by = c )
                => cv[c].result = "ok" /\ StoredBy(c) # {}

\* a request succeeded, and a later one with the same address in another
\* casing was refused
C3_Witness ==
    \E c, d \in CVIds :
        /\ cv[c].pc = "done" /\ cv[c].result = "ok"
        /\ cv[d].pc = "done" /\ cv[d].late /\ cv[d].result = "conflict"
        /\ cv[d].dto.email # cv[c].dto.email
        /\ ToLowerCase(cv[d].dto.email) = ToLowerCase(cv[c].dto.email)

Finished(g) == gt[g].pc = "done" /\ gt[g].result.kind = "list"

\* C4: every getTop call that starts after a createVote call has returned
\* successfully returns a ranking computed from a Vote Store snapshot that
\* contains that vote, in every interleaving with getTop calls already in
\* flight.
C4_FreshAfterVote ==
    \A g \in GTIds : Finished(g) => gt[g].snap >= gt[g].mustSee

\* C5: getTop(limit) returns at most limit entries for every integer limit
\* the controller can pass, from the cache and recomputed.
C5_AtMostLimit ==
    \A g \in GTIds : Finished(g) => Len(gt[g].result.list) <= gt[g].limit

\* C6: every list getTop returns is ordered by voteCount descending and
\* every entry has voteCount >= 1, from the cache and recomputed.
C6_SortedPositive ==
    \A g \in GTIds :
        Finished(g)
        => LET list == gt[g].result.list
           IN /\ \A i \in DOMAIN list : list[i].voteCount >= 1
              /\ \A i, j \in DOMAIN list :
                   i < j => list[i].voteCount >= list[j].voteCount

\* a recomputed ranking and a ranking served from the cache, both with two
\* entries of different counts
C6_Witness ==
    \E g, h \in GTIds :
        /\ Finished(g) /\ ~gt[g].hit /\ Finished(h) /\ gt[h].hit
        /\ Len(gt[g].result.list) = 2 /\ Len(gt[h].result.list) = 2
        /\ gt[g].result.list[1].voteCount > gt[g].result.list[2].voteCount
        /\ gt[h].result.list[1].voteCount > gt[h].result.list[2].voteCount

\* C8: a getTop call whose aggregation fails on a cache miss fails with the
\* error: it returns no ranking and writes nothing to the ranking cache.
C8_AggregationFailurePropagates ==
    \A g \in GTIds :
        (gt[g].pc = "done" /\ gt[g].aggFailed)
        => /\ gt[g].result.kind = "error"
           /\ gt[g].result.list = <<>>
           /\ gt[g].sets = 0
           /\ ~gt[g].hit

\* the aggregation of a call with a positive limit failed while votes were
\* stored, and the ranking cache holds nothing
C8_Witness ==
    \E g \in GTIds :
        /\ gt[g].pc = "done" /\ gt[g].aggFailed /\ gt[g].limit > 0
        /\ gt[g].result.kind = "error"
        /\ Len(votes) > 0
        /\ ~cache[CACHE_KEY_TOP_COUNTRIES].present

\* C9: getByCode never fails; when the directory reports zero matches and
\* when the fetch or the mapping fails it returns null and writes no cache
\* entry, so a later call for the code asks the directory again.
C9_LookupAbsorbsFailures ==
    \A b \in BCIds :
        /\ ~bc[b].threw
        /\ (bc[b].pc = "done"
            /\ bc[b].answer \in {"rejected", "empty", "malformed"})
           => /\ bc[b].ret.status = "null"
              /\ bc[b].sets = 0

\* a lookup got zero matches and returned null, and a later lookup of the
\* same code asked the directory again and got a failure
C9_Witness ==
    \E b, d \in BCIds :
        /\ b < d /\ bc[b].code = bc[d].code
        /\ bc[b].pc = "done" /\ bc[b].answer = "empty"
        /\ bc[b].ret.status = "null"
        /\ bc[d].pc = "done" /\ bc[d].fetched
        /\ bc[d].answer \in {"rejected", "malformed"}
        /\ bc[d].ret.status = "null"

\* C10: getAll fails with DirectoryUnavailable whenever no unexpired
\* listing is cached and the external fetch fails, stores nothing then, and
\* never returns fallback or partial data.
C10_GetAllFailsWithoutFallback ==
    \A a \in GAIds :
        ga[a].pc = "done"
        => /\ ga[a].fetchFailed
                => /\ ga[a].result.kind = "DirectoryUnavailable"
                   /\ ga[a].result.list = <<>>
                   /\ ga[a].sets = 0
           /\ ga[a].result.kind = "list"
                => ga[a].result.list = MapAll(FullListing)
           /\ cache[CACHE_KEY_ALL_COUNTRIES].present
                => cache[CACHE_KEY_ALL_COUNTRIES].val = MapAll(FullListing)

\* a call found no cached listing, its fetch failed, it answered
\* DirectoryUnavailable and the cache holds no listing
C10_Witness ==
    \E a \in GAIds :
        /\ ga[a].pc = "done" /\ ga[a].fetched /\ ga[a].fetchFailed
        /\ ga[a].result.kind = "DirectoryUnavailable"
        /\ ~cache[CACHE_KEY_ALL_COUNTRIES].present

\* C11: a country search whose query is missing or shorter than 2
\* characters is answered with {error, results: []} and invokes neither the
\* directory search nor the directory cache nor the external directory.
C11_ShortQueryAnsweredLocally ==
    \A s \in SRIds :
        (sr[s].pc # "idle"
         /\ (~sr[s].query.given \/ Len(sr[s].query.text) < 2))
        => /\ sr[s].pc = "done"
           /\ sr[s].result = [kind |-> "response", error |-> TRUE,
                              results |-> <<>>]
           /\ ~sr[s].called
           /\ sr[s].cacheReads = 0
           /\ sr[s].fetches = 0

\* a search without q and a search for "a" were answered while the
\* listing was not cached
C11_Witness ==
    \E s, u \in SRIds :
        /\ sr[s].pc = "done" /\ ~sr[s].query.given
        /\ sr[u].pc = "done" /\ sr[u].query.text = <<"a">>
        /\ sr[u].result.error
        /\ ~cache[CACHE_KEY_ALL_COUNTRIES].present

\* two characters are the same letter in either case
SameLetter(a, b) ==
    \/ a = b
    \/ a \in DOMAIN LowerOf /\ LowerOf[a] = b
    \/ b \in DOMAIN LowerOf /\ LowerOf[b] = a

\* name contains q as a substring, ignoring letter case
ContainsIgnoringCase(name, q) ==
    \E k \in 0..(Len(name) - Len(q)) :
        \A i \in 1..Len(q) : SameLetter(name[k + i], q[i])

SourceRecord(code) == CHOOSE r \in ExternalDirectory : r.cca3 = code

\* a CountryDetail carries the sentinel wherever its source record has no
\* capital (or an empty capital list) or no subregion
DefaultsApplied(d) ==
    LET r == SourceRecord(d.code)
    IN /\ d.capital \in STRING /\ d.subregion \in STRING
       /\ d.capital # "undefined" /\ d.subregion # "undefined"
       /\ (~r.capital.defined \/ Len(r.capital.val) = 0)
            => d.capital = "N/A"
       /\ ~r.subregion.defined => d.subregion = "N/A"
       /\ (r.capital.defined /\ Len(r.capital.val) > 0)
            => d.capital = r.capital.val[1]
       /\ r.subregion.defined => d.subregion = r.subregion.val

\* C13: every CountryDetail returned by getAll() or getByCode(), fetched or
\* read back from the cache, has a capital and a subregion that are
\* strings; a record without capital (or with an empty capital list) gives
\* capital "N/A", a record without subregion gives subregion "N/A".
C13_MissingFieldsBecomeNA ==
    /\ \A b \in BCIds :
          (bc[b].pc = "done" /\ bc[b].ret.status = "found")
          => DefaultsApplied(bc[b].ret.details)
    /\ \A a \in GAIds :
          (ga[a].pc = "done" /\ ga[a].result.kind = "list")
          => \A i \in DOMAIN ga[a].result.list :
                DefaultsApplied(ga[a].result.list[i])

\* Antarctica (no capital, no subregion) was read back from the cache by
\* getByCode, and getAll read back a listing with Macau (empty capital list)
C13_Witness ==
    \E b \in BCIds, a \in GAIds :
        /\ bc[b].pc = "done" /\ ~bc[b].fetched
        /\ bc[b].ret.status = "found"
        /\ bc[b].ret.details.code = <<"A", "T", "A">>
        /\ bc[b].ret.details.capital = "N/A"
        /\ bc[b].ret.details.subregion = "N/A"
        /\ ga[a].pc = "done" /\ ~ga[a].fetched
        /\ ga[a].result.kind = "list"
        /\ \E i \in DOMAIN ga[a].result.list :
              /\ ga[a].result.list[i].code = <<"M", "A", "C">>
              /\ ga[a].result.list[i].capital = "N/A"

\* the key the directory record of a code is to be counted under: its
\* subregion when it has one, its region otherwise
RecordRegion(code) ==
    LET r == SourceRecord(code)
    IN IF r.subregion.defined THEN r.subregion.val ELSE r.region

\* C14: byRegion() counts every vote whose country getByCode resolves
\* under the subregion of the country's directory record when the record
\* has one, and under its region when the record has no subregion.
C14_SubregionElseRegion ==
    \A r \in BRIds :
        (br[r].pc = "done" /\ br[r].result.kind = "list")
        => \A i \in DOMAIN br[r].codes :
              br[r].seen[i]
              => \E k \in DOMAIN br[r].result.list :
                    /\ br[r].result.list[k].region =
                         RecordRegion(br[r].codes[i])
                    /\ br[r].result.list[k].votes =
                         Cardinality({ j \in DOMAIN br[r].codes :
                            /\ br[r].seen[j]
                            /\ RecordRegion(br[r].codes[j]) =
                                 RecordRegion(br[r].codes[i]) })

RECURSIVE SumVotes(_)
SumVotes(list) ==
    IF Len(list) = 0 THEN 0 ELSE list[1].votes + SumVotes(Tail(list))

\* C15: byRegion() leaves out every vote getByCode returns absent for and
\* counts every other scanned vote once: the votes of its entries add up
\* to the number of scanned votes that resolved, never more than the
\* number of votes scanned.
C15_SumIsResolvedVotes ==
    \A r \in BRIds :
        (br[r].pc = "done" /\ br[r].result.kind = "list")
        => /\ Len(br[r].seen) = Len(br[r].codes)
           /\ SumVotes(br[r].result.list) =
                Cardinality({ i \in DOMAIN br[r].seen : br[r].seen[i] })
           /\ SumVotes(br[r].result.list) <= Len(br[r].codes)
           /\ \A k, m \in DOMAIN br[r].result.list :
                 k # m => br[r].result.list[k].region #
                          br[r].result.list[m].region

\* a scan of four votes of which the one for ZZZ did not resolve and the
\* three others were counted
C15_Witness ==
    \E r \in BRIds :
        /\ br[r].pc = "done" /\ br[r].result.kind = "list"
        /\ Len(br[r].codes) = 4
        /\ \E i \in DOMAIN br[r].codes :
              br[r].codes[i] = <<"Z", "Z", "Z">> /\ ~br[r].seen[i]
        /\ SumVotes(br[r].result.list) = 3

\* instant t falls on the UTC day numbered d
OnDay(t, d) == d * 86400000 <= t /\ t < (d + 1) * 86400000

\* C16: timeline() returns one entry per distinct UTC calendar date on
\* which a vote with a createdAt was created, with the number of such votes
\* of that date, the entries in ascending order of date; votes without
\* createdAt contribute to no entry.
C16_TimelinePerUtcDate ==
    \A t \in TLIds :
        (tl[t].pc = "done" /\ tl[t].result.kind = "list")
        => LET list == tl[t].result.list
               dated == { i \in DOMAIN tl[t].scanned :
                            tl[t].scanned[i].defined }
           IN /\ \A k \in DOMAIN list :
                    /\ list[k].votes >= 1
                    /\ list[k].votes =
                         Cardinality({ i \in dated :
                            OnDay(tl[t].scanned[i].t, list[k].date) })
              /\ \A i \in dated :
                    \E k \in DOMAIN list :
                       OnDay(tl[t].scanned[i].t, list[k].date)
              /\ \A k, m \in DOMAIN list :
                    k < m => list[k].date < list[m].date
              /\ SumVotes(list) = Cardinality(dated)

\* four stored votes, one without createdAt: two on day 0, one on day 1
C16_Witness ==
    \E t \in TLIds :
        /\ tl[t].pc = "done"
        /\ Len(tl[t].scanned) = 4
        /\ \E i \in DOMAIN tl[t].scanned : ~tl[t].scanned[i].defined
        /\ tl[t].result.list =
             << [date |-> 0, votes |-> 2], [date |-> 1, votes |-> 1] >>

\* the entry of a key is at most limit milliseconds old
WithinTtl(key, limit) ==
    cache[key].present /\ now.t - cache[key].at <= limit

\* the entry of a key is more than limit milliseconds old
PastTtl(key, limit) ==
    cache[key].present /\ now.t - cache[key].at > limit

\* C17: a cached ranking is never served more than 5 minutes after the
\* write that stored it and a cached directory entry (full listing or
\* per-code) never more than 1 hour after its write; a read that finds an
\* entry past its TTL goes to the source (aggregation, external directory).
C17_TtlBoundsServing ==
    [][ /\ \A g \in GTIds :
             (gt[g].pc = "cacheGet" /\ gt'[g] # gt[g])
             => /\ gt'[g].pc = "done"
                     => WithinTtl(CACHE_KEY_TOP_COUNTRIES, 5 * 60 * 1000)
                /\ PastTtl(CACHE_KEY_TOP_COUNTRIES, 5 * 60 * 1000)
                     => gt'[g].pc = "aggregate"
        /\ \A g \in GTIds :
             (gt[g].pc = "bcCacheGet" /\ gt'[g] # gt[g])
             => LET key == CountryKey(gt[g].agg[gt[g].i].id)
                IN /\ gt'[g].pc # "bcHttp"
                        => WithinTtl(key, 60 * 60 * 1000)
                   /\ PastTtl(key, 60 * 60 * 1000)
                        => gt'[g].pc = "bcHttp"
        /\ \A a \in GAIds :
             (ga[a].pc = "cacheGet" /\ ga'[a] # ga[a])
             => /\ ga'[a].pc = "done"
                     => WithinTtl(CACHE_KEY_ALL_COUNTRIES, 60 * 60 * 1000)
                /\ PastTtl(CACHE_KEY_ALL_COUNTRIES, 60 * 60 * 1000)
                     => ga'[a].pc = "http"
      ]_vars

\* a ranking was served exactly 5 minutes after its write, and a getAll
\* that read a listing older than 1 hour fetched the listing again
C17_Witness ==
    \E g \in GTIds, a \in GAIds :
        /\ gt[g].pc = "done" /\ gt[g].hit /\ gt[g].age = 300000
        /\ ga[a].pc = "done" /\ ga[a].age > 3600000
        /\ ga[a].fetched /\ ga[a].result.kind = "list"

\* C18: every successful vote clears the cache completely: when createVote
\* returns successfully no cache entry written before remains, neither the
\* ranking entry nor a directory entry (full listing or per-code).
C18_VoteClearsWholeCache ==
    [][ \A c \in CVIds :
          (cv[c].pc = "del" /\ cv'[c].pc = "done" /\ cv'[c].result = "ok")
          => \A k \in CacheKeys : ~cache'[k].present
      ]_vars

\* C19: votes are created only by createVote and never updated or
\* deleted: every step of every operation leaves each stored vote in place
\* with unchanged fields, a new vote comes only from a createVote save, and
\* the total and every per-country count never decrease.
C19_VotesAppendOnly ==
    [][ /\ Len(votes') >= Len(votes)
        /\ \A i \in DOMAIN votes : votes'[i] = votes[i]
        /\ \A code \in GroupIds(votes) :
              CountOf(votes', code) >= CountOf(votes, code)
        /\ votes' # votes
              => \E c \in CVIds : /\ cv[c].pc = "save"
                                  /\ cv'[c].writes = cv[c].writes + 1
                                  /\ Len(votes') = Len(votes) + 1
      ]_vars

\* a vote was added to the stored one while getTop, byRegion, timeline and
\* hasVoted all ran to their end
C19_Witness ==
    /\ Len(votes) = 2 /\ votes[2].by = 1
    /\ cv[1].pc = "done" /\ cv[1].result = "ok"
    /\ gt[1].pc = "done" /\ gt[1].result.kind = "list"
    /\ \E r \in BRIds : br[r].pc = "done" /\ br[r].result.kind = "list"
    /\ \E t \in TLIds : tl[t].pc = "done" /\ tl[t].result.kind = "list"
    /\ \E h \in HVIds : hv[h].pc = "done" /\ hv[h].result = "true"

UppercaseLetters ==
    { "A", "B", "C", "D", "E", "F", "G", "H", "I", "J", "K", "L", "M",
      "N", "O", "P", "Q", "R", "S", "T", "U", "V", "W", "X", "Y", "Z" }

\* C20: every vote persisted through the vote-creation endpoint has a name
\* of 2 to 100 characters, a lowercase email and a countryCode of exactly 3
\* uppercase letters; an input the schema refuses is rejected with
\* ValidationError before the Vote Store is read or written.
C20_PersistedVotesWellFormed ==
    /\ \A i \in DOMAIN votes :
          /\ Len(votes[i].name) >= 2 /\ Len(votes[i].name) <= 100
          /\ \A k \in DOMAIN votes[i].email :
                votes[i].email[k] \notin UppercaseLetters
          /\ Len(votes[i].countryCode) = 3
          /\ \A k \in DOMAIN votes[i].countryCode :
                votes[i].countryCode[k] \in UppercaseLetters
    /\ \A c \in CVIds :
          cv[c].result = "validation_error"
          => /\ cv[c].writes = 0 /\ cv[c].dels = 0
             /\ ~cv[c].passed /\ ~cv[c].outage /\ ~cv[c].late

\* C28: in every response of detailedStats(), also when createVote calls
\* run concurrently with it, the votes of votesByRegion add up to at most
\* totalVotes, the votes of timeline add up to at most totalVotes, and
\* uniqueCountries is at most totalVotes.
C28_StatsWithinTotal ==
    \A d \in DSIds :
        (ds[d].pc = "done" /\ ds[d].result.kind = "stats")
        => /\ SumVotes(ds[d].result.votesByRegion) <= ds[d].result.totalVotes
           /\ SumVotes(ds[d].result.timeline) <= ds[d].result.totalVotes
           /\ ds[d].result.uniqueCountries <= ds[d].result.totalVotes

\* a getTopCountries call inside its enrichment loop or at its cache write
InLoop(r) == r.pc \in {"bcCacheGet", "bcHttp", "bcCacheSet", "cacheSet"}

\* the positions of the aggregation that resolved, in aggregation order
Picked(r) ==
    SelectSeq([j \in 1..Len(r.agg) |-> j], LAMBDA j : j \in r.resolved)

C22_HitServesPrefix ==
    [][\A g \in GTIds :
          (/\ gt[g].pc = "cacheGet"
           /\ CacheHit(CACHE_KEY_TOP_COUNTRIES)
           /\ gt'[g] # gt[g])
          => LET cached == cache[CACHE_KEY_TOP_COUNTRIES].val
             IN /\ gt'[g].pc = "done"
                /\ gt'[g].result =
                      [kind |-> "list",
                       list |-> SubSeq(cached, 1,
                                  Min(gt[g].limit, Len(cached)))]
                /\ cache' = cache
                /\ votes' = votes
      ]_vars

\* C23: the cache write of a getTop call that missed stores under the
\* ranking key, with the ranking TTL, exactly the list the call returns,
\* also when it is empty or shorter than limit; every call that returned a
\* computed list wrote it once; a later call that finds the entry is served
\* from it, and the entry changes only by such a write, by the invalidation
\* of a vote or by expiry.
C23_StoresWhatItReturns ==
    [][/\ \A g \in GTIds :
            /\ (gt[g].pc = "cacheSet" /\ gt'[g] # gt[g])
               => /\ gt'[g].result.kind = "list"
                  /\ cache'[CACHE_KEY_TOP_COUNTRIES].present
                  /\ cache'[CACHE_KEY_TOP_COUNTRIES].val = gt'[g].result.list
                  /\ cache'[CACHE_KEY_TOP_COUNTRIES].ttl = VOTES_CACHE_TTL
                  /\ gt'[g].sets = 1
            /\ (gt[g].pc = "done" /\ gt[g].result.kind = "list" /\ ~gt[g].hit)
               => gt[g].sets = 1
            /\ (/\ gt[g].pc = "cacheGet"
                /\ CacheHit(CACHE_KEY_TOP_COUNTRIES)
                /\ gt'[g] # gt[g])
               => /\ gt'[g].hit
                  /\ gt'[g].result.kind = "list"
                  /\ \E n \in 0..Len(cache[CACHE_KEY_TOP_COUNTRIES].val) :
                        gt'[g].result.list =
                           SubSeq(cache[CACHE_KEY_TOP_COUNTRIES].val, 1, n)
       /\ cache'[CACHE_KEY_TOP_COUNTRIES] # cache[CACHE_KEY_TOP_COUNTRIES]
            => \/ \E g \in GTIds : gt[g].pc = "cacheSet" /\ gt'[g].pc = "done"
               \/ /\ cache'[CACHE_KEY_TOP_COUNTRIES] = NoEntry
                  /\ \/ \E c \in CVIds : cv[c].pc = "del" /\ cv'[c].pc = "done"
                     \/ cv' = cv /\ gt' = gt
      ]_vars

\* an empty ranking was computed, returned and cached, and a later call was
\* served the cached empty list
C23_Witness ==
    \E g, h \in GTIds :
        /\ gt[g].pc = "done" /\ gt[g].sets = 1 /\ gt[g].limit > 0
        /\ gt[g].result = [kind |-> "list", list |-> <<>>]
        /\ gt[g].snap > 0
        /\ cache[CACHE_KEY_TOP_COUNTRIES].present
        /\ cache[CACHE_KEY_TOP_COUNTRIES].val = <<>>
        /\ gt[h].pc = "done" /\ gt[h].hit
        /\ gt[h].result = [kind |-> "list", list |-> <<>>]

\* C24: within one createVote call save is awaited only after findOne found
\* nothing, and the invalidation only after save stored the vote; the
\* ranking entry leaves the cache only in the invalidation step of a
\* createVote that stored its vote, or by expiry: no createVote that failed
\* has invalidated, and no step of a read removes the entry.
C24_OrderedAndOnlyVotesEvict ==
    [][/\ \A c \in CVIds :
            /\ cv[c].pc = "save" => cv[c].passed /\ cv[c].writes = 0
            /\ cv[c].pc = "del" =>
                  cv[c].passed /\ cv[c].writes = 1 /\ cv[c].dels = 0
            /\ cv[c].dels = 1 => cv[c].writes = 1 /\ cv[c].result = "ok"
            /\ (cv[c].pc = "done" /\ cv[c].result # "ok") => cv[c].dels = 0
       /\ (/\ cache[CACHE_KEY_TOP_COUNTRIES].present
           /\ ~cache'[CACHE_KEY_TOP_COUNTRIES].present)
          => \/ \E c \in CVIds :
                  /\ cv[c].pc = "del" /\ cv[c].writes = 1
                  /\ cv'[c].pc = "done" /\ cv'[c].dels = 1
                  /\ gt' = gt
             \/ cv' = cv /\ gt' = gt
      ]_vars

\* a createVote stored its vote and then invalidated a ranking that a
\* getTop call had cached before
C24_Witness ==
    \E c \in CVIds, g \in GTIds :
        /\ cv[c].pc = "done" /\ cv[c].result = "ok"
        /\ cv[c].writes = 1 /\ cv[c].dels = 1
        /\ gt[g].pc = "done" /\ gt[g].sets = 1
        /\ gt[g].snap < Len(votes)
        /\ ~cache[CACHE_KEY_TOP_COUNTRIES].present

\* C25: a getAll() or getByCode(code) call that reads the cache while an
\* unexpired entry exists under its key returns that entry and has made no
\* call to the external directory; the cache write after a successful
\* fetch stores, with the directory TTL, the mapped value the call returns.
C25_DirectoryReadThrough ==
    [][/\ \A b \in BCIds :
            LET key == CountryKey(bc[b].code)
            IN /\ (bc[b].pc = "cacheGet" /\ CacheHit(key) /\ bc'[b] # bc[b])
                  => /\ bc'[b].pc = "done"
                     /\ bc'[b].ret = [status |-> "found",
                                      details |-> cache[key].val]
                     /\ ~bc'[b].fetched
                     /\ cache' = cache
               /\ (bc[b].pc = "cacheSet" /\ bc'[b] # bc[b])
                  => /\ bc[b].fetched
                     /\ bc'[b].ret.status = "found"
                     /\ \E x \in AlphaMatches(bc[b].code) :
                           bc'[b].ret.details = MapCountryToDetails(x)
                     /\ cache'[key] = [present |-> TRUE,
                                       val |-> bc'[b].ret.details,
                                       at |-> now.t,
                                       ttl |-> COUNTRIES_CACHE_TTL]
       /\ \A a \in GAIds :
            LET key == CACHE_KEY_ALL_COUNTRIES
            IN /\ (ga[a].pc = "cacheGet" /\ CacheHit(key) /\ ga'[a] # ga[a])
                  => /\ ga'[a].pc = "done"
                     /\ ga'[a].result = [kind |-> "list",
                                         list |-> cache[key].val]
                     /\ ~ga'[a].fetched
                     /\ cache' = cache
               /\ (ga[a].pc = "cacheSet" /\ ga'[a] # ga[a])
                  => /\ ga[a].fetched
                     /\ ga'[a].result = [kind |-> "list",
                                         list |-> MapAll(FullListing)]
                     /\ cache'[key] = [present |-> TRUE,
                                       val |-> ga'[a].result.list,
                                       at |-> now.t,
                                       ttl |-> COUNTRIES_CACHE_TTL]
      ]_vars

\* one getByCode call fetched and stored a country, a later one for the
\* same code was answered from the cache; likewise for getAll
C25_Witness ==
    /\ \E b, d \in BCIds :
          /\ bc[b].pc = "done" /\ bc[b].fetched /\ bc[b].sets = 1
          /\ bc[d].pc = "done" /\ ~bc[d].fetched
          /\ bc[d].code = bc[b].code
          /\ bc[d].ret = bc[b].ret /\ bc[d].ret.status = "found"
    /\ \E a, d \in GAIds :
          /\ ga[a].pc = "done" /\ ga[a].fetched /\ ga[a].sets = 1
          /\ ga[d].pc = "done" /\ ~ga[d].fetched
          /\ ga[d].result = ga[a].result /\ ga[d].result.kind = "list"

\* C26: a createVote call whose normalized email no other call has
\* submitted and the store did not hold when it arrived never fails with
\* DuplicateVote; unless the storage fails it succeeds, and the store then
\* holds exactly one vote written by it.
C26_DistinctEmailsAllSucceed ==
    \A c \in CVIds :
        (/\ cv[c].pc # "idle"
         /\ cv[c].result # "validation_error"
         /\ ~cv[c].late
         /\ Submitted(ToLowerCase(cv[c].dto.email)) = {c})
        => /\ cv[c].result # "conflict"
           /\ (cv[c].pc = "done" /\ ~cv[c].outage)
              => /\ cv[c].result = "ok"
                 /\ Cardinality(StoredBy(c)) = 1

\* two calls with different emails for the same country have both
\* succeeded and the store holds both votes
C26_Witness ==
    /\ Len(votes) = 2
    /\ votes[1].email # votes[2].email
    /\ votes[1].countryCode = votes[2].countryCode
    /\ \A c \in VoteCVIds : cv[c].pc = "done" /\ cv[c].result = "ok"

\* C27: no list returned by getTop contains two entries with the same
\* country code.
C27_NoDuplicateCountry ==
    \A g \in GTIds :
        Finished(g)
        => \A i, j \in DOMAIN gt[g].result.list :
               i # j => gt[g].result.list[i].code # gt[g].result.list[j].code

RECURSIVE SumVoteCounts(_)
SumVoteCounts(list) ==
    IF Len(list) = 0 THEN 0 ELSE list[1].voteCount + SumVoteCounts(Tail(list))

\* the entries of list carry the counts that the first snap votes of the
\* store give to the codes they were aggregated under, and no more than
\* the store holds now
CountsFrom(list, snap) ==
    /\ snap <= Len(votes)
    /\ \A k \in DOMAIN list :
          \E id \in GroupIds(SubSeq(votes, 1, snap)) :
              /\ \E x \in AlphaMatches(id) : list[k].code = x.cca3
              /\ list[k].voteCount = CountOf(SubSeq(votes, 1, snap), id)
              /\ list[k].voteCount <= CountOf(votes, id)
    /\ SumVoteCounts(list) <= Len(votes)

\* C29: each entry of the cached ranking and of every list getTop returned
\* has the voteCount that the Vote Store held for the entry's aggregated
\* code when the ranking was aggregated, which is at most the number of
\* votes now stored for that code; the voteCounts of a list add up to at
\* most the number of votes now stored.
C29_NeverOverReports ==
    /\ cache[CACHE_KEY_TOP_COUNTRIES].present
         => CountsFrom(cache[CACHE_KEY_TOP_COUNTRIES].val, rankSnap)
    /\ \A g \in GTIds :
          Finished(g) => CountsFrom(gt[g].result.list, gt[g].snap)

\* a cached ranking, already returned by a call, reports fewer votes for a
\* country than the store holds by now
C29_Witness ==
    /\ cache[CACHE_KEY_TOP_COUNTRIES].present
    /\ \E k \in DOMAIN cache[CACHE_KEY_TOP_COUNTRIES].val :
          LET e == cache[CACHE_KEY_TOP_COUNTRIES].val[k]
          IN /\ e.voteCount >= 2
             /\ e.voteCount < CountOf(votes, e.code)
    /\ \E g \in GTIds :
          /\ Finished(g)
          /\ gt[g].result.list = cache[CACHE_KEY_TOP_COUNTRIES].val

\* C30: once no further createVote succeeds, from some point on every list
\* a getTop call returns comes from a ranking aggregated from the final
\* contents of the Vote Store: its snapshot is the whole store and every
\* entry has the number of votes the store holds for its country.
C30_Converges ==
    <>[][\A g \in GTIds :
            (/\ gt[g].pc # "done"
             /\ gt'[g].pc = "done"
             /\ gt'[g].result.kind = "list")
            => /\ gt'[g].snap = Len(votes')
               /\ \A k \in DOMAIN gt'[g].result.list :
                     gt'[g].result.list[k].voteCount =
                        CountOf(votes', gt'[g].result.list[k].code)
        ]_vars

\* one call was served a ranking older than the last vote; after the
\* ranking left the cache another call returned a ranking that counts it
C30_Witness ==
    \E g, h \in GTIds :
        /\ \A c \in RankCVIds : cv[c].pc = "done" /\ cv[c].result = "ok"
        /\ Finished(g) /\ gt[g].hit /\ gt[g].snap < Len(votes)
        /\ Finished(h) /\ ~gt[h].hit /\ gt[h].snap = Len(votes)
        /\ gt[h].sets = 1
        /\ \E k \in DOMAIN gt[h].result.list :
              /\ gt[h].result.list[k].voteCount =
                    CountOf(votes, gt[h].result.list[k].code)
              /\ gt[h].result.list[k].voteCount >
                    CountOf(SubSeq(votes, 1, gt[g].snap),
                            gt[h].result.list[k].code)

====
